---- MODULE Spec2Model ----
(***************************************************************************)
(* Verification model of grilops (TypeScript port): the constraint         *)
(* encodings that RegionConstrainer, PathConstrainer, ShapeConstrainer,    *)
(* the sightline helpers and SymbolGrid hand to the z3 solver.             *)
(*                                                                         *)
(* Every solver.add(...) of the source is kept as an expression tree in    *)
(* the sequence `solver`; solver.check() returns any assignment of the     *)
(* created integer constants that makes every asserted tree true.          *)
(***************************************************************************)
EXTENDS Integers, Sequences, FiniteSets, TLC

VARIABLES
  cfg,      \* the caller's constructor arguments
  solver,   \* the assertions added to the z3 solver, in order of solver.add
  nvars,    \* number of integer constants created so far (numbered 1..nvars)
  status,   \* "new" | "built" | "sat" | "unsat"
  model,    \* the model of the last satisfiable check: value of constant i
  expr,     \* an expression returned to the caller (sightlines), or <<>>
  history,  \* the grid assignments returned by successive checks
  ret,      \* the boolean returned by the last solve / isUnique call
  instanceIndex,  \* the static _instanceIndex of each component class
  consts,   \* the z3 context: the names of its constants, constant i is consts[i]
  created   \* every Int.const(name) call so far: the name and the calling instance

vars == <<cfg, solver, nvars, status, model, expr, history, ret,
          instanceIndex, consts, created>>

(***************************************************************************)
(* Bounds of the model.                                                    *)
(***************************************************************************)
MaxCells == 4        \* largest number of lattice points
MaxOffsets == 3      \* largest number of offsets of a shape that is canonicalized
MaxSpecs == 3        \* largest number of symbol specifications given to a SymbolSet
MaxLookups == 2      \* largest number of index lookups made on one RegionConstrainer
MaxExcluded == 2     \* largest number of points excluded in one getOtherPointsExpr call
MaxMade == 2         \* calls stop once an expression was made this many times for one key and node

(***************************************************************************)
(* z3 expression trees.  An integer constant is <<"var", i>>.              *)
(***************************************************************************)
Var(i) == <<"var", i>>
Val(n) == <<"val", n>>
Eq(a, b) == <<"eq", a, b>>
Neq(a, b) == <<"neq", a, b>>
Ge(a, b) == <<"ge", a, b>>
Gt(a, b) == <<"gt", a, b>>
Le(a, b) == <<"le", a, b>>
Lt(a, b) == <<"lt", a, b>>
Add(a, b) == <<"add", a, b>>
Sub(a, b) == <<"sub", a, b>>
Not(a) == <<"not", a>>
Implies(a, b) == <<"implies", a, b>>
And(args) == <<"and", args>>
Or(args) == <<"or", args>>
Sum(args) == <<"sum", args>>
If(c, a, b) == <<"ite", c, a, b>>
PbEq(args, weights, k) == <<"pbeq", args, weights, k>>

\* Values under a partial assignment: <<TRUE, v>> is the value v, and
\* <<FALSE, _>> is "depends on a constant that is not assigned yet".
Known(v) == <<TRUE, v>>
UnknownInt == <<FALSE, 0>>
UnknownBool == <<FALSE, FALSE>>

(***************************************************************************)
(* Value of an expression under a partial assignment m (the constants in   *)
(* DOMAIN m are assigned).  On a total assignment the value is always      *)
(* known, and is the value z3 gives the expression in that model.          *)
(***************************************************************************)
RECURSIVE Eval(_, _), EvalSum(_, _, _)
Eval(e, m) ==
  LET op == e[1] IN
  CASE op = "var" -> IF e[2] \in DOMAIN m THEN Known(m[e[2]]) ELSE UnknownInt
    [] op = "val" -> Known(e[2])
    [] op = "eq" ->
         LET a == Eval(e[2], m) IN
         IF ~a[1] THEN UnknownBool
         ELSE LET b == Eval(e[3], m) IN
              IF b[1] THEN Known(a[2] = b[2]) ELSE UnknownBool
    [] op = "neq" ->
         LET a == Eval(e[2], m) IN
         IF ~a[1] THEN UnknownBool
         ELSE LET b == Eval(e[3], m) IN
              IF b[1] THEN Known(a[2] # b[2]) ELSE UnknownBool
    [] op = "implies" ->
         LET a == Eval(e[2], m) IN
         IF a[1] /\ ~a[2] THEN Known(TRUE)
         ELSE LET b == Eval(e[3], m) IN
              IF b[1] /\ b[2] THEN Known(TRUE)
              ELSE IF a[1] /\ b[1] THEN Known(FALSE) ELSE UnknownBool
    [] op = "and" ->
         LET vs == {Eval(e[2][j], m) : j \in 1..Len(e[2])} IN
         IF Known(FALSE) \in vs THEN Known(FALSE)
         ELSE IF UnknownBool \in vs THEN UnknownBool ELSE Known(TRUE)
    [] op = "or" ->
         LET vs == {Eval(e[2][j], m) : j \in 1..Len(e[2])} IN
         IF Known(TRUE) \in vs THEN Known(TRUE)
         ELSE IF UnknownBool \in vs THEN UnknownBool ELSE Known(FALSE)
    [] op = "ite" ->
         LET c == Eval(e[2], m) IN
         IF c[1] THEN (IF c[2] THEN Eval(e[3], m) ELSE Eval(e[4], m)) ELSE UnknownInt
    [] op = "sum" -> EvalSum(e[2], <<>>, m)
    [] op = "not" ->
         LET a == Eval(e[2], m) IN IF a[1] THEN Known(~a[2]) ELSE UnknownBool
    [] op = "ge" ->
         LET a == Eval(e[2], m)
             b == Eval(e[3], m)
         IN IF a[1] /\ b[1] THEN Known(a[2] >= b[2]) ELSE UnknownBool
    [] op = "gt" ->
         LET a == Eval(e[2], m)
             b == Eval(e[3], m)
         IN IF a[1] /\ b[1] THEN Known(a[2] > b[2]) ELSE UnknownBool
    [] op = "le" ->
         LET a == Eval(e[2], m)
             b == Eval(e[3], m)
         IN IF a[1] /\ b[1] THEN Known(a[2] <= b[2]) ELSE UnknownBool
    [] op = "lt" ->
         LET a == Eval(e[2], m)
             b == Eval(e[3], m)
         IN IF a[1] /\ b[1] THEN Known(a[2] < b[2]) ELSE UnknownBool
    [] op = "add" ->
         LET a == Eval(e[2], m)
             b == Eval(e[3], m)
         IN IF a[1] /\ b[1] THEN Known(a[2] + b[2]) ELSE UnknownInt
    [] op = "sub" ->
         LET a == Eval(e[2], m)
             b == Eval(e[3], m)
         IN IF a[1] /\ b[1] THEN Known(a[2] - b[2]) ELSE UnknownInt
    [] op = "pbeq" ->
         LET s == EvalSum(e[2], e[3], m) IN
         IF s[1] THEN Known(s[2] = e[4]) ELSE UnknownBool

\* the sum of integer terms (weights = <<>>), or the weighted count of the
\* boolean terms that are true
EvalSum(args, weights, m) ==
  IF args = <<>> THEN Known(0)
  ELSE LET h == Eval(Head(args), m) IN
       IF ~h[1] THEN UnknownInt
       ELSE LET t == EvalSum(Tail(args), IF weights = <<>> THEN <<>> ELSE Tail(weights), m)
                x == IF weights = <<>> THEN h[2]
                     ELSE IF h[2] THEN Head(weights) ELSE 0
            IN IF t[1] THEN Known(x + t[2]) ELSE UnknownInt

\* the constants an expression mentions
RECURSIVE Mentions(_)
Mentions(e) ==
  LET op == e[1] IN
  CASE op = "var" -> {e[2]}
    [] op = "val" -> {}
    [] op \in {"eq", "neq", "ge", "gt", "le", "lt", "add", "sub", "implies"} ->
         Mentions(e[2]) \cup Mentions(e[3])
    [] op = "not" -> Mentions(e[2])
    [] op \in {"and", "or", "sum", "pbeq"} ->
         UNION {Mentions(e[2][j]) : j \in 1..Len(e[2])}
    [] op = "ite" -> Mentions(e[2]) \cup Mentions(e[3]) \cup Mentions(e[4])

Holds(e, m) == Eval(e, m) = Known(TRUE)
Refuted(e, m) == Eval(e, m) = Known(FALSE)

(***************************************************************************)
(* solver.check(): the set of models of the assertions.  The search first  *)
(* narrows each constant to the values its single-constant assertions      *)
(* allow, then assigns the constants in the given order and drops a        *)
(* partial assignment as soon as an assertion is refuted by it.  Every     *)
(* assertion is evaluated again on each complete assignment.  The order    *)
(* changes the time the search takes, never the set of models.             *)
(***************************************************************************)
RECURSIVE Extend(_, _, _, _, _, _)
Extend(partials, k, order, doms, ment, store) ==
  IF k > Len(order) \/ partials = {} THEN partials
  ELSE LET i == order[k]
           rel == {q[1] : q \in {r \in ment : i \in r[2] /\ r[2] # {i}}}
           dom == UNION {q[2] : q \in {r \in doms : r[1] = i}}
       IN Extend(UNION {{m2 \in {m @@ (i :> x) : x \in dom} :
                           \A j \in rel : ~Refuted(store[j], m2)} :
                        m \in partials},
                 k + 1, order, doms, ment, store)

Models(store, n, ranges, order) ==
  LET ment == {<<j, Mentions(store[j])>> : j \in 1..Len(store)}
      doms == {<<i, {x \in ranges[i] : \A r \in ment :
                       r[2] = {i} => ~Refuted(store[r[1]], (i :> x))}>> : i \in 1..n}
  IN {m \in Extend({<<>>}, 1, order, doms, ment, store) :
        DOMAIN m = 1..n /\ \A j \in 1..Len(store) : Holds(store[j], m)}

(***************************************************************************)
(* Geometry: points <<y, x>>, vectors <<dy, dx>>, rectangular lattices.    *)
(***************************************************************************)
translate(p, v) == <<p[1] + v[1], p[2] + v[2]>>
negate(v) == <<0 - v[1], 0 - v[2]>>

\* Point.comparator(a, b) < 0
PointLess(a, b) == a[1] < b[1] \/ (a[1] = b[1] /\ a[2] < b[2])

RECURSIVE SortPoints(_)
SortPoints(ps) ==
  IF ps = <<>> THEN <<>>
  ELSE LET rest == SortPoints(Tail(ps))
           h == Head(ps)
           k == Cardinality({i \in 1..Len(rest) : PointLess(rest[i], h)})
       IN SubSeq(rest, 1, k) \o <<h>> \o SubSeq(rest, k + 1, Len(rest))

\* new RectangularLattice(points): the sorted point list
RectangularLattice(points) == SortPoints(points)

HasPoint(lat, p) == \E i \in 1..Len(lat) : lat[i] = p

\* Lattice.pointToIndex for a point of the lattice (the last index set)
pointToIndex(lat, p) ==
  (CHOOSE i \in 1..Len(lat) : lat[i] = p /\ \A j \in (i + 1)..Len(lat) : lat[j] # p) - 1

edgeSharingDirections ==
  << [name |-> "N", vector |-> <<-1, 0>>],
     [name |-> "S", vector |-> <<1, 0>>],
     [name |-> "E", vector |-> <<0, 1>>],
     [name |-> "W", vector |-> <<0, -1>>] >>

NumDirs == Len(edgeSharingDirections)

\* position (1-based) of the direction with the given vector
DirPos(v) == CHOOSE k \in 1..NumDirs : edgeSharingDirections[k].vector = v

oppositeDirection(d) == edgeSharingDirections[DirPos(negate(d.vector))]

\* the k-element combinations of 1..n as ascending pairs, in generator order
combinations2(n) ==
  LET pairs == {<<i, j>> : i \in 1..n, j \in 1..n}
      asc == {q \in pairs : q[1] < q[2]}
      rank(q) == Cardinality({r \in asc : r[1] < q[1] \/ (r[1] = q[1] /\ r[2] < q[2])})
  IN [k \in 1..Cardinality(asc) |-> CHOOSE q \in asc : rank(q) = k - 1]

\* concatenation of the sequences f[1], ..., f[n]
RECURSIVE Flatten(_)
Flatten(f) == IF f = <<>> THEN <<>> ELSE Head(f) \o Flatten(Tail(f))

\* the caller's point lists: the first n points, row by row, of a grid w wide
RaggedPoints(w, n) == [i \in 1..n |-> <<(i - 1) \div w, (i - 1) % w>>]

Lattices ==
  {RectangularLattice(RaggedPoints(w, n)) : w \in 1..MaxCells, n \in 1..MaxCells}

(***************************************************************************)
(* RegionConstrainer (src/lib/constraints/regions.ts)                      *)
(***************************************************************************)
X == 0
R == 1

\* _manageEdgeSharingDirections: parent types X, R, then one per direction
parentTypes == <<"X", "R">> \o [k \in 1..NumDirs |-> edgeSharingDirections[k].name]

edgeSharingDirectionToIndex(d) == 1 + DirPos(d.vector)

parentTypeToIndex(t) == (CHOOSE k \in 1..Len(parentTypes) : parentTypes[k] = t) - 1

\* the z3 constants of the four grids, created grid by grid after `base`
parentGrid(base, lat, p) == Var(base + pointToIndex(lat, p) + 1)
subtreeSizeGrid(base, lat, p) == Var(base + Len(lat) + pointToIndex(lat, p) + 1)
regionIdGrid(base, lat, p) == Var(base + 2 * Len(lat) + pointToIndex(lat, p) + 1)
regionSizeGrid(base, lat, p) == Var(base + 3 * Len(lat) + pointToIndex(lat, p) + 1)

\* variant: the regionId of a cell without a region is left free
RcCreateGridsFreeId(base, lat, complete, minRegionSize, maxRegionSize) ==
  LET n == Len(lat)
      parents == [i \in 1..n |->
        LET v == parentGrid(base, lat, lat[i]) IN
        << IF complete THEN Ge(v, Val(R)) ELSE Ge(v, Val(X)),
           Lt(v, Val(Len(parentTypes))) >>]
      subtreeSizes == [i \in 1..n |->
        LET v == subtreeSizeGrid(base, lat, lat[i]) IN
        << IF complete THEN Ge(v, Val(1)) ELSE Ge(v, Val(0)),
           Le(v, Val(maxRegionSize)) >>]
      regionIds == [i \in 1..n |->
        LET v == regionIdGrid(base, lat, lat[i])
            parent == parentGrid(base, lat, lat[i])
        IN << IF complete THEN Ge(v, Val(0)) ELSE Ge(v, Val(-1)),
              Lt(v, Val(n)),
              Implies(Eq(parent, Val(R)), Eq(v, Val(pointToIndex(lat, lat[i])))) >>]
      regionSizes == [i \in 1..n |->
        LET v == regionSizeGrid(base, lat, lat[i])
            parent == parentGrid(base, lat, lat[i])
            subtreeSize == subtreeSizeGrid(base, lat, lat[i])
        IN << IF complete THEN Ge(v, Val(minRegionSize))
              ELSE Or(<<Ge(v, Val(minRegionSize)), Eq(v, Val(-1))>>),
              Le(v, Val(maxRegionSize)),
              Implies(Eq(parent, Val(X)), Eq(v, Val(-1))),
              Implies(Eq(parent, Val(R)), Eq(v, subtreeSize)) >>]
  IN Flatten(parents) \o Flatten(subtreeSizes) \o Flatten(regionIds)
       \o Flatten(regionSizes)

RcCreateGrids(base, lat, complete, minRegionSize, maxRegionSize) ==
  LET n == Len(lat)
      parents == [i \in 1..n |->
        LET v == parentGrid(base, lat, lat[i]) IN
        << IF complete THEN Ge(v, Val(R)) ELSE Ge(v, Val(X)),
           Lt(v, Val(Len(parentTypes))) >>]
      subtreeSizes == [i \in 1..n |->
        LET v == subtreeSizeGrid(base, lat, lat[i]) IN
        << IF complete THEN Ge(v, Val(1)) ELSE Ge(v, Val(0)),
           Le(v, Val(maxRegionSize)) >>]
      regionIds == [i \in 1..n |->
        LET v == regionIdGrid(base, lat, lat[i])
            parent == parentGrid(base, lat, lat[i])
        IN << IF complete THEN Ge(v, Val(0)) ELSE Ge(v, Val(-1)),
              Lt(v, Val(n)),
              Implies(Eq(parent, Val(X)), Eq(v, Val(-1))),
              Implies(Eq(parent, Val(R)), Eq(v, Val(pointToIndex(lat, lat[i])))) >>]
      regionSizes == [i \in 1..n |->
        LET v == regionSizeGrid(base, lat, lat[i])
            parent == parentGrid(base, lat, lat[i])
            subtreeSize == subtreeSizeGrid(base, lat, lat[i])
        IN << IF complete THEN Ge(v, Val(minRegionSize))
              ELSE Or(<<Ge(v, Val(minRegionSize)), Eq(v, Val(-1))>>),
              Le(v, Val(maxRegionSize)),
              Implies(Eq(parent, Val(X)), Eq(v, Val(-1))),
              Implies(Eq(parent, Val(R)), Eq(v, subtreeSize)) >>]
  IN Flatten(parents) \o Flatten(subtreeSizes) \o Flatten(regionIds)
       \o Flatten(regionSizes)

\* variant: a cell that is the parent of a neighbour must itself be a root
constrainSideRootsOnly(base, lat, p, sp, sd) ==
  << Implies(Eq(parentGrid(base, lat, p), Val(X)),
             Neq(parentGrid(base, lat, sp), Val(sd))),
     Implies(Eq(parentGrid(base, lat, sp), Val(sd)),
             And(<< Eq(regionIdGrid(base, lat, p), regionIdGrid(base, lat, sp)),
                    Eq(regionSizeGrid(base, lat, p), regionSizeGrid(base, lat, sp)),
                    Eq(parentGrid(base, lat, p), Val(R)) >>)) >>

\* variant: the parent link no longer propagates the region id
constrainSideNoRegionId(base, lat, p, sp, sd) ==
  << Implies(Eq(parentGrid(base, lat, p), Val(X)),
             Neq(parentGrid(base, lat, sp), Val(sd))),
     Implies(Eq(parentGrid(base, lat, sp), Val(sd)),
             And(<< Eq(regionSizeGrid(base, lat, p), regionSizeGrid(base, lat, sp)) >>)) >>

constrainSide(base, lat, p, sp, sd) ==
  << Implies(Eq(parentGrid(base, lat, p), Val(X)),
             Neq(parentGrid(base, lat, sp), Val(sd))),
     Implies(Eq(parentGrid(base, lat, sp), Val(sd)),
             And(<< Eq(regionIdGrid(base, lat, p), regionIdGrid(base, lat, sp)),
                    Eq(regionSizeGrid(base, lat, p), regionSizeGrid(base, lat, sp)) >>)) >>

\* variant: a child counts as one cell instead of its whole subtree
subtreeSizeTermOne(base, lat, sp, sd) ==
  If(Eq(parentGrid(base, lat, sp), Val(sd)), Val(1), Val(0))

subtreeSizeTerm(base, lat, sp, sd) ==
  If(Eq(parentGrid(base, lat, sp), Val(sd)), subtreeSizeGrid(base, lat, sp), Val(0))

RcAddConstraints(base, lat) ==
  LET perPoint == [i \in 1..Len(lat) |->
        LET p == lat[i]
            parent == parentGrid(base, lat, p)
            perDir == [k \in 1..NumDirs |->
              LET d == edgeSharingDirections[k]
                  sp == translate(p, d.vector)
              IN IF HasPoint(lat, sp)
                 THEN constrainSide(base, lat, p, sp,
                        edgeSharingDirectionToIndex(oppositeDirection(d)))
                 ELSE << Neq(parent, Val(edgeSharingDirectionToIndex(d))) >>]
            subtreeSizeTerms == Flatten([k \in 1..NumDirs |->
              LET d == edgeSharingDirections[k]
                  sp == translate(p, d.vector)
              IN IF HasPoint(lat, sp)
                 THEN << subtreeSizeTerm(base, lat, sp,
                           edgeSharingDirectionToIndex(oppositeDirection(d))) >>
                 ELSE <<>>])
        IN Flatten(perDir) \o
           << Eq(subtreeSizeGrid(base, lat, p),
                 Sum(<< If(Neq(parent, Val(X)), Val(1), Val(0)) >> \o subtreeSizeTerms)) >>]
  IN Flatten(perPoint)

\* Lattice.edgeSharingNeighbors: the neighbouring points that are on the lattice
edgeSharingNeighbors(lat, p) ==
  Flatten([k \in 1..NumDirs |->
    LET q == translate(p, edgeSharingDirections[k].vector)
    IN IF HasPoint(lat, q) THEN <<q>> ELSE <<>>])

\* variant: the rectangular flag adds no assertion
RcAddRectangularConstraintsNone(base, lat) == <<>>

RcAddRectangularConstraints(base, lat) ==
  LET perPoint == [i \in 1..Len(lat) |->
        LET p == lat[i]
            neighbors == edgeSharingNeighbors(lat, p)
            pairs == combinations2(Len(neighbors))
        IN Flatten([k \in 1..Len(pairs) |->
             LET n1 == neighbors[pairs[k][1]]
                 n2 == neighbors[pairs[k][2]]
                 n1Neighbors == edgeSharingNeighbors(lat, n1)
                 n2Neighbors == edgeSharingNeighbors(lat, n2)
                 all == n1Neighbors \o n2Neighbors
                 \* new Set([...n1Neighbors, ...n2Neighbors]) minus p, in insertion order
                 commonPoints == SelectSeq(
                   [j \in 1..Len(all) |->
                      IF all[j] # p /\ \A h \in 1..(j - 1) : all[h] # all[j]
                      THEN <<all[j]>> ELSE <<>>],
                   LAMBDA s : s # <<>>)
             IN IF Len(commonPoints) > 0
                THEN << Implies(
                          And(<< Eq(regionIdGrid(base, lat, n1), regionIdGrid(base, lat, p)),
                                 Eq(regionIdGrid(base, lat, n2), regionIdGrid(base, lat, p)),
                                 Neq(regionIdGrid(base, lat, p), Val(-1)) >>),
                          And([j \in 1..Len(commonPoints) |->
                                 Eq(regionIdGrid(base, lat, commonPoints[j][1]),
                                    regionIdGrid(base, lat, p))])) >>
                ELSE <<>>])]
  IN Flatten(perPoint)

\* new RegionConstrainer(context, lattice, solver, complete, rectangular, min, max)
RegionConstrainer(base, lat, complete, rectangular, minRegionSize, maxRegionSize) ==
  LET minSize == IF minRegionSize # 0 THEN minRegionSize ELSE 1
      maxSize == IF maxRegionSize # 0 THEN maxRegionSize ELSE Len(lat)
  IN RcCreateGrids(base, lat, complete, minSize, maxSize)
       \o RcAddConstraints(base, lat)
       \o (IF rectangular THEN RcAddRectangularConstraints(base, lat) ELSE <<>>)

(***************************************************************************)
(* SymbolGrid (src/lib/grids.ts)                                           *)
(***************************************************************************)
\* the z3 constant of the cell at p, `base` constants having been created before
sgGrid(base, lat, p) == Var(base + pointToIndex(lat, p) + 1)

\* new SymbolGrid(lattice, symbolSet): one constant per point, within the
\* index range of the symbol set
SymbolGrid(base, lat, minIndex, maxIndex) ==
  Flatten([i \in 1..Len(lat) |->
    << Ge(sgGrid(base, lat, lat[i]), Val(minIndex)),
       Le(sgGrid(base, lat, lat[i]), Val(maxIndex)) >>])

(***************************************************************************)
(* PathSymbolSet (src/lib/constraints/paths.ts)                            *)
(***************************************************************************)
\* combinations(dirs, 2): the symbol with index k - 1 has arms directionPairs[k]
directionPairs == combinations2(NumDirs)

maxPathSegmentSymbolIndex == Len(directionPairs) - 1

\* the terminals are appended after the segments, one per direction
terminalForDirection(k) == maxPathSegmentSymbolIndex + k

maxPathTerminalSymbolIndex(includeTerminals) ==
  IF includeTerminals THEN terminalForDirection(NumDirs) ELSE 0

\* the indices pushed for the direction at position k, in push order
symbolsForDirection(k, includeTerminals) ==
  LET segs == SelectSeq([j \in 1..Len(directionPairs) |-> j],
                LAMBDA j : directionPairs[j][1] = k \/ directionPairs[j][2] = k)
  IN [i \in 1..Len(segs) |-> segs[i] - 1]
       \o (IF includeTerminals THEN <<terminalForDirection(k)>> ELSE <<>>)

\* SymbolSet.maxIndex() after `appended` further calls of append()
pathSymbolSetMaxIndex(includeTerminals, appended) ==
  (IF includeTerminals THEN maxPathTerminalSymbolIndex(includeTerminals)
   ELSE maxPathSegmentSymbolIndex) + appended

isPath(includeTerminals, symbol) ==
  IF includeTerminals
  THEN Lt(symbol, Val(maxPathTerminalSymbolIndex(includeTerminals) + 1))
  ELSE Lt(symbol, Val(maxPathSegmentSymbolIndex + 1))

isTerminal(includeTerminals, symbol) ==
  IF ~includeTerminals THEN Val(FALSE)
  ELSE And(<< Gt(symbol, Val(maxPathSegmentSymbolIndex)),
              Lt(symbol, Val(maxPathTerminalSymbolIndex(includeTerminals) + 1)) >>)

(***************************************************************************)
(* PathConstrainer (src/lib/constraints/paths.ts).  sg is the number of    *)
(* constants created before the symbol grid, base the number created       *)
(* before the constrainer.                                                 *)
(***************************************************************************)
pathInstanceGrid(base, lat, p) == Var(base + pointToIndex(lat, p) + 1)
pathOrderGrid(base, lat, p) == Var(base + Len(lat) + pointToIndex(lat, p) + 1)

\* solver.ctx.Or(...dirSyms.map(s => cell.eq(s)))
cellPointsDir(cell, dirSyms) == Or([j \in 1..Len(dirSyms) |-> Eq(cell, Val(dirSyms[j]))])

\* variant: arms towards points outside the lattice are not excluded
PcAddPathEdgeConstraintsOnLattice(sg, lat, includeTerminals) ==
  Flatten([i \in 1..Len(lat) |->
    LET p == lat[i]
        cell == sgGrid(sg, lat, p)
    IN Flatten([k \in 1..NumDirs |->
         LET d == edgeSharingDirections[k]
             np == translate(p, d.vector)
             dirSyms == symbolsForDirection(k, includeTerminals)
         IN IF HasPoint(lat, np)
            THEN LET oppositeSyms == symbolsForDirection(
                       DirPos(oppositeDirection(d).vector), includeTerminals)
                 IN << Implies(cellPointsDir(cell, dirSyms),
                               cellPointsDir(sgGrid(sg, lat, np), oppositeSyms)) >>
            ELSE <<>>])])

PcAddPathEdgeConstraints(sg, lat, includeTerminals) ==
  Flatten([i \in 1..Len(lat) |->
    LET p == lat[i]
        cell == sgGrid(sg, lat, p)
    IN Flatten([k \in 1..NumDirs |->
         LET d == edgeSharingDirections[k]
             np == translate(p, d.vector)
             dirSyms == symbolsForDirection(k, includeTerminals)
         IN IF HasPoint(lat, np)
            THEN LET oppositeSyms == symbolsForDirection(
                       DirPos(oppositeDirection(d).vector), includeTerminals)
                 IN << Implies(cellPointsDir(cell, dirSyms),
                               cellPointsDir(sgGrid(sg, lat, np), oppositeSyms)) >>
            ELSE [j \in 1..Len(dirSyms) |-> Neq(cell, Val(dirSyms[j]))]])])

\* variant: an arm no longer carries the path instance to the neighbour
instanceFollowsArmNever(cell, dirSyms, pi, npi) ==
  Implies(cellPointsDir(cell, dirSyms), Ge(npi, Val(-1)))

instanceFollowsArm(cell, dirSyms, pi, npi) ==
  Implies(cellPointsDir(cell, dirSyms), Eq(pi, npi))

PcAddPathInstanceGridConstraints(sg, base, lat, includeTerminals, complete) ==
  Flatten([i \in 1..Len(lat) |->
    LET p == lat[i]
        pi == pathInstanceGrid(base, lat, p)
        cell == sgGrid(sg, lat, p)
        pointIndex == pointToIndex(lat, p)
    IN << IF complete THEN Ge(pi, Val(0)) ELSE Ge(pi, Val(-1)),
          Lt(pi, Val(Len(lat))),
          Eq(isPath(includeTerminals, cell), Neq(pi, Val(-1))),
          Eq(Eq(pathOrderGrid(base, lat, p), Val(0)), Eq(pi, Val(pointIndex))) >>
       \o Flatten([k \in 1..NumDirs |->
            LET np == translate(p, edgeSharingDirections[k].vector)
            IN IF HasPoint(lat, np)
               THEN << instanceFollowsArm(cell, symbolsForDirection(k, includeTerminals),
                          pi, pathInstanceGrid(base, lat, np)) >>
               ELSE <<>>])])

\* the order constraint of a terminal whose arm leads to the cell with order npo
terminalOrder(cell, s, po, npo) ==
  Implies(Eq(cell, Val(s)),
          Or(<< And(<< Eq(po, Val(0)), Eq(npo, Val(1)) >>),
                And(<< Gt(po, Val(0)), Eq(npo, Sub(po, Val(1))) >>) >>))

\* variant: a segment only needs a successor
segmentOrderSuccessorOnly(cell, idx, po, poi, poj, allowLoops) ==
  Implies(And(<< Eq(cell, Val(idx)), Gt(po, Val(0)) >>),
          Or(<< Or(<< Eq(poj, Add(po, Val(1))),
                      IF allowLoops THEN Eq(poj, Val(0)) ELSE Val(FALSE) >>),
                Or(<< Eq(poi, Add(po, Val(1))),
                      IF allowLoops THEN Eq(poi, Val(0)) ELSE Val(FALSE) >>) >>))

\* variant: the successor of a segment may have order 0 whatever allowLoops is
segmentOrderLoops(cell, idx, po, poi, poj, allowLoops) ==
  Implies(And(<< Eq(cell, Val(idx)), Gt(po, Val(0)) >>),
          Or(<< And(<< Eq(poi, Sub(po, Val(1))),
                       Or(<< Eq(poj, Add(po, Val(1))), Eq(poj, Val(0)) >>) >>),
                And(<< Or(<< Eq(poi, Add(po, Val(1))), Eq(poi, Val(0)) >>),
                       Eq(poj, Sub(po, Val(1))) >>) >>))

\* variant: the orders grow from the first arm of a segment to its second
segmentOrderOneSense(cell, idx, po, poi, poj, allowLoops) ==
  Implies(And(<< Eq(cell, Val(idx)), Gt(po, Val(0)) >>),
          And(<< Eq(poi, Sub(po, Val(1))),
                 Or(<< Eq(poj, Add(po, Val(1))),
                       IF allowLoops THEN Eq(poj, Val(0)) ELSE Val(FALSE) >>) >>))

\* the order constraint of a segment whose arms lead to the cells with
\* orders poi and poj
segmentOrder(cell, idx, po, poi, poj, allowLoops) ==
  Implies(And(<< Eq(cell, Val(idx)), Gt(po, Val(0)) >>),
          Or(<< And(<< Eq(poi, Sub(po, Val(1))),
                       Or(<< Eq(poj, Add(po, Val(1))),
                             IF allowLoops THEN Eq(poj, Val(0)) ELSE Val(FALSE) >>) >>),
                And(<< Or(<< Eq(poi, Add(po, Val(1))),
                             IF allowLoops THEN Eq(poi, Val(0)) ELSE Val(FALSE) >>),
                       Eq(poj, Sub(po, Val(1))) >>) >>))

PcAddPathOrderGridConstraints(sg, base, lat, includeTerminals, complete, allowLoops) ==
  Flatten([i \in 1..Len(lat) |->
    LET p == lat[i]
        po == pathOrderGrid(base, lat, p)
        cell == sgGrid(sg, lat, p)
    IN << IF complete THEN Ge(po, Val(0)) ELSE Ge(po, Val(-1)),
          Eq(isPath(includeTerminals, cell), Neq(po, Val(-1))) >>
       \o Flatten([k \in 1..NumDirs |->
            LET np == translate(p, edgeSharingDirections[k].vector)
            IN IF includeTerminals /\ HasPoint(lat, np)
               THEN << terminalOrder(cell, terminalForDirection(k), po,
                                     pathOrderGrid(base, lat, np)) >>
               ELSE <<>>])
       \o Flatten([k \in 1..Len(directionPairs) |->
            LET pi == translate(p, edgeSharingDirections[directionPairs[k][1]].vector)
                pj == translate(p, edgeSharingDirections[directionPairs[k][2]].vector)
            IN IF HasPoint(lat, pi) /\ HasPoint(lat, pj)
               THEN << Implies(Eq(cell, Val(k - 1)),
                               Neq(pathOrderGrid(base, lat, pi),
                                   pathOrderGrid(base, lat, pj))),
                       segmentOrder(cell, k - 1, po, pathOrderGrid(base, lat, pi),
                                    pathOrderGrid(base, lat, pj), allowLoops) >>
               ELSE <<>>])])

\* variant: terminals are never ruled out
PcAddAllowTerminatedPathsConstraintsNone(sg, lat, includeTerminals, allowTerminatedPaths) == <<>>

PcAddAllowTerminatedPathsConstraints(sg, lat, includeTerminals, allowTerminatedPaths) ==
  IF ~allowTerminatedPaths
  THEN [i \in 1..Len(lat) |-> Not(isTerminal(includeTerminals, sgGrid(sg, lat, lat[i])))]
  ELSE <<>>

\* new PathConstrainer(symbolGrid, complete, allowTerminatedPaths, allowLoops)
PathConstrainer(sg, base, lat, includeTerminals, complete, allowTerminatedPaths, allowLoops) ==
  PcAddPathEdgeConstraints(sg, lat, includeTerminals)
    \o PcAddPathInstanceGridConstraints(sg, base, lat, includeTerminals, complete)
    \o PcAddPathOrderGridConstraints(sg, base, lat, includeTerminals, complete, allowLoops)
    \o PcAddAllowTerminatedPathsConstraints(sg, lat, includeTerminals, allowTerminatedPaths)

\* PathConstrainer.numPaths
numPaths(base, lat) ==
  Sum([i \in 1..Len(lat) |-> If(Eq(pathOrderGrid(base, lat, lat[i]), Val(0)), Val(1), Val(0))])

(***************************************************************************)
(* Shape (src/lib/constraints/shapes.ts): a sequence of offset tuples      *)
(* <<vector, payload>>; the payload of a plain Vector offset is            *)
(* "undefined".                                                            *)
(***************************************************************************)
\* Vector.comparator(a, b) < 0: by dy, then by dx
VectorLess(a, b) == a[1] < b[1] \/ (a[1] = b[1] /\ a[2] < b[2])

\* new Shape(offsets) for offsets that are plain Vectors
Shape(offsets) == [i \in 1..Len(offsets) |-> <<offsets[i], "undefined">>] \o <<>>

\* Shape.offsetVectors
offsetVectors(shape) == [i \in 1..Len(shape) |-> shape[i][1]] \o <<>>

\* offsetTuples.slice().sort(([a], [b]) => Vector.comparator(a, b)); the
\* sort is stable
RECURSIVE SortVectors(_)
SortVectors(vs) ==
  IF vs = <<>> THEN <<>>
  ELSE LET rest == SortVectors(Tail(vs))
           h == Head(vs)
           k == Cardinality({i \in 1..Len(rest) : VectorLess(rest[i][1], h[1])})
       IN SubSeq(rest, 1, k) \o <<h>> \o SubSeq(rest, k + 1, Len(rest))

\* RectangularLattice.transformationFunctions: f = <<a, b, c, d, q>> maps the

\* variant: the rotations without the half turn
transformationFunctionsQuarterTurns(allowRotations, allowReflections) ==
  IF allowRotations
  THEN IF allowReflections
       THEN << <<1, 0, 0, 1, 1>>, <<1, 0, 0, -1, 1>>, <<-1, 0, 0, 1, 1>>, <<-1, 0, 0, -1, 1>>,
               <<0, 1, 1, 0, 1>>, <<0, 1, -1, 0, 1>>, <<0, -1, 1, 0, 1>>, <<0, -1, -1, 0, 1>> >>
       ELSE << <<1, 0, 0, 1, 1>>, <<0, 1, -1, 0, 1>>, <<0, -1, 1, 0, 1>> >>
  ELSE IF allowReflections
       THEN << <<1, 0, 0, 1, 1>>, <<1, 0, 0, -1, 1>>, <<-1, 0, 0, 1, 1>> >>
       ELSE << <<1, 0, 0, 1, 1>> >>

\* vector <<dy, dx>> to <<(a * dy + b * dx) / q, (c * dy + d * dx) / q>>
transformationFunctions(allowRotations, allowReflections) ==
  IF allowRotations
  THEN IF allowReflections
       THEN << <<1, 0, 0, 1, 1>>, <<1, 0, 0, -1, 1>>, <<-1, 0, 0, 1, 1>>, <<-1, 0, 0, -1, 1>>,
               <<0, 1, 1, 0, 1>>, <<0, 1, -1, 0, 1>>, <<0, -1, 1, 0, 1>>, <<0, -1, -1, 0, 1>> >>
       ELSE << <<1, 0, 0, 1, 1>>, <<0, 1, -1, 0, 1>>, <<-1, 0, 0, -1, 1>>, <<0, -1, 1, 0, 1>> >>
  ELSE IF allowReflections
       THEN << <<1, 0, 0, 1, 1>>, <<1, 0, 0, -1, 1>>, <<-1, 0, 0, 1, 1>> >>
       ELSE << <<1, 0, 0, 1, 1>> >>

\* FlatToppedHexagonalLattice.transformationFunctions
flatToppedTransformationFunctions(allowRotations, allowReflections) ==
  IF allowRotations
  THEN IF allowReflections
       THEN << <<2, 0, 0, 2, 2>>, <<1, 3, -1, 1, 2>>, <<-1, 3, -1, -1, 2>>,
               <<-2, 0, 0, -2, 2>>, <<-1, -3, 1, -1, 2>>, <<1, -3, 1, 1, 2>>,
               <<-2, 0, 0, 2, 2>>, <<-1, -3, -1, 1, 2>>, <<1, -3, -1, -1, 2>>,
               <<2, 0, 0, -2, 2>>, <<1, 3, 1, -1, 2>>, <<-1, 3, 1, 1, 2>> >>
       ELSE << <<2, 0, 0, 2, 2>>, <<1, 3, -1, 1, 2>>, <<-1, 3, -1, -1, 2>>,
               <<-2, 0, 0, -2, 2>>, <<-1, -3, 1, -1, 2>>, <<1, -3, 1, 1, 2>> >>
  ELSE IF allowReflections
       THEN << <<2, 0, 0, 2, 2>>, <<-2, 0, 0, 2, 2>>, <<-1, -3, -1, 1, 2>>,
               <<1, -3, -1, -1, 2>>, <<2, 0, 0, -2, 2>>, <<1, 3, 1, -1, 2>>,
               <<-1, 3, 1, 1, 2>> >>
       ELSE << <<2, 0, 0, 2, 2>> >>

\* PointyToppedHexagonalLattice.transformationFunctions
pointyToppedTransformationFunctions(allowRotations, allowReflections) ==
  IF allowRotations
  THEN IF allowReflections
       THEN << <<2, 0, 0, 2, 2>>, <<1, 1, -3, 1, 2>>, <<-1, 1, -3, -1, 2>>,
               <<-2, 0, 0, -2, 2>>, <<-1, -1, 3, -1, 2>>, <<1, -1, 3, 1, 2>>,
               <<-2, 0, 0, 2, 2>>, <<-1, -1, -3, 1, 2>>, <<1, -1, -3, -1, 2>>,
               <<2, 0, 0, -2, 2>>, <<1, 1, 3, -1, 2>>, <<-1, 1, 3, 1, 2>> >>
       ELSE << <<2, 0, 0, 2, 2>>, <<1, 1, -3, 1, 2>>, <<-1, 1, -3, -1, 2>>,
               <<-2, 0, 0, -2, 2>>, <<-1, -1, 3, -1, 2>>, <<1, -1, 3, 1, 2>> >>
  ELSE IF allowReflections
       THEN << <<-2, 0, 0, 2, 2>>, <<-1, -1, -3, 1, 2>>, <<1, -1, -3, -1, 2>>,
               <<2, 0, 0, -2, 2>>, <<1, 1, 3, -1, 2>>, <<-1, 1, 3, 1, 2>> >>
       ELSE << <<2, 0, 0, 2, 2>> >>

\* f(vector) for a transformation function f
applyTransformation(f, v) ==
  <<(f[1] * v[1] + f[2] * v[2]) \div f[5], (f[3] * v[1] + f[4] * v[2]) \div f[5]>>

\* Shape.transform
transform(shape, f) ==
  [i \in 1..Len(shape) |-> <<applyTransformation(f, shape[i][1]), shape[i][2]>>]

\* variant: the offsets are re-anchored at the first one given, unsorted
canonicalizeUnsorted(shape) ==
  [i \in 1..Len(shape) |->
     <<translate(shape[i][1], negate(shape[1][1])), shape[i][2]>>] \o <<>>

\* Shape.canonicalize
canonicalize(shape) ==
  LET offsetTuples == SortVectors(shape)
      firstNegated == negate(offsetTuples[1][1])
  IN [i \in 1..Len(offsetTuples) |->
        <<translate(offsetTuples[i][1], firstNegated), offsetTuples[i][2]>>] \o <<>>

\* a payload is "undefined", a literal, or a z3 constant, written as its name
PayloadConstants == {"x", "y"}

\* context.isExpr(p)
isExpr(p) == p \in PayloadConstants

\* the truth value JavaScript gives an object such as a z3 expression
truthy(object) == TRUE

\* the comparison of the payloads p1 and p2 in the loop of Shape.equivalent:
\* FALSE where the loop returns false; context.Eq builds the expression
\* p1 == p2
payloadsMatch(p1, p2) ==
  IF isExpr(p1) /\ isExpr(p2) THEN truthy(Eq(p1, p2))
  ELSE IF p1 = "undefined" THEN p2 = "undefined"
  ELSE IF p2 = "undefined" THEN p1 = "undefined"
  ELSE p1 = p2

\* Shape.equivalent
equivalent(s1, s2) ==
  /\ Len(s1) = Len(s2)
  /\ \A i \in 1..Len(s1) : s1[i][1] = s2[i][1] /\ payloadsMatch(s1[i][2], s2[i][2])

RECURSIVE shapeVariants(_, _, _)
shapeVariants(shape, fs, acc) ==
  IF fs = <<>> THEN acc
  ELSE LET variant == canonicalize(transform(shape, Head(fs)))
       IN shapeVariants(shape, Tail(fs),
            IF \E i \in 1..Len(acc) : equivalent(acc[i], variant)
            THEN acc ELSE Append(acc, variant))

\* ShapeConstrainer._makeVariants, for shapes given as lists of Vectors: the
\* offset vectors of the variants of each shape
makeVariants(shapes, allowRotations, allowReflections) ==
  [i \in 1..Len(shapes) |->
     LET variants == shapeVariants(Shape(shapes[i]),
                       transformationFunctions(allowRotations, allowReflections), <<>>)
     IN [j \in 1..Len(variants) |-> offsetVectors(variants[j])] \o <<>>]
    \o <<>>

(***************************************************************************)
(* ShapeConstrainer grids and the expressions registered in the quadtree.  *)
(***************************************************************************)
shapeTypeGrid(base, lat, p) == Var(base + pointToIndex(lat, p) + 1)
shapeInstanceGrid(base, lat, p) == Var(base + Len(lat) + pointToIndex(lat, p) + 1)

ScCreateGrids(base, lat, numShapes, complete) ==
  Flatten([i \in 1..Len(lat) |->
    << IF complete THEN Ge(shapeTypeGrid(base, lat, lat[i]), Val(0))
       ELSE Ge(shapeTypeGrid(base, lat, lat[i]), Val(-1)),
       Lt(shapeTypeGrid(base, lat, lat[i]), Val(numShapes)) >>])
  \o Flatten([i \in 1..Len(lat) |->
    << IF complete THEN Ge(shapeInstanceGrid(base, lat, lat[i]), Val(0))
       ELSE Ge(shapeInstanceGrid(base, lat, lat[i]), Val(-1)),
       Lt(shapeInstanceGrid(base, lat, lat[i]), Val(Len(lat))) >>])

ScAddGridAgreementConstraints(base, lat) ==
  [i \in 1..Len(lat) |->
    Or(<< And(<< Eq(shapeTypeGrid(base, lat, lat[i]), Val(-1)),
                 Eq(shapeInstanceGrid(base, lat, lat[i]), Val(-1)) >>),
          And(<< Neq(shapeTypeGrid(base, lat, lat[i]), Val(-1)),
                 Neq(shapeInstanceGrid(base, lat, lat[i]), Val(-1)) >>) >>)]

\* the expression constructors added with quadTree.addExpr; a key is
\* <<kind, number>>
exprFuncs(key, base, lat, p) ==
  CASE key[1] = "HAS_INSTANCE_ID" -> Eq(shapeInstanceGrid(base, lat, p), Val(key[2]))
    [] key[1] = "NOT_HAS_INSTANCE_ID" -> Not(Eq(shapeInstanceGrid(base, lat, p), Val(key[2])))
    [] key[1] = "HAS_SHAPE_TYPE" -> Eq(shapeTypeGrid(base, lat, p), Val(key[2]))

(***************************************************************************)
(* ExpressionQuadTree (src/lib/utils/quadTree.ts).  A node is the sequence *)
(* of the points it was constructed with.                                  *)
(***************************************************************************)
SeqMin(s) == CHOOSE x \in {s[i] : i \in 1..Len(s)} : \A j \in 1..Len(s) : x <= s[j]
SeqMax(s) == CHOOSE x \in {s[i] : i \in 1..Len(s)} : \A j \in 1..Len(s) : x >= s[j]

\* _yMin + _yMax and _xMin + _xMax: twice the midpoints _yMid and _xMid
midSums(node) ==
  LET ys == [i \in 1..Len(node) |-> node[i][1]] \o <<>>
      xs == [i \in 1..Len(node) |-> node[i][2]] \o <<>>
  IN <<SeqMin(ys) + SeqMax(ys), SeqMin(xs) + SeqMax(xs)>>

\* variant: the quadrants split at _yMin and _xMin
quadsAtMin(node) ==
  LET mid == midSums(node)
      ys == [i \in 1..Len(node) |-> node[i][1]] \o <<>>
      xs == [i \in 1..Len(node) |-> node[i][2]] \o <<>>
      quad(top, left) ==
        SelectSeq(node, LAMBDA p : (p[1] < SeqMin(ys)) = top /\ (p[2] < SeqMin(xs)) = left)
  IN SelectSeq(<< quad(TRUE, TRUE), quad(TRUE, FALSE), quad(FALSE, TRUE), quad(FALSE, FALSE) >>,
               LAMBDA q : q # <<>>)

\* _quads: the non-empty quadrants tl, tr, bl, br (y < yMid on top, x < xMid
\* on the left)
quads(node) ==
  LET mid == midSums(node)
      quad(top, left) ==
        SelectSeq(node, LAMBDA p : (2 * p[1] < mid[1]) = top /\ (2 * p[2] < mid[2]) = left)
  IN SelectSeq(<< quad(TRUE, TRUE), quad(TRUE, FALSE), quad(FALSE, TRUE), quad(FALSE, FALSE) >>,
               LAMBDA q : q # <<>>)

coversPoint(node, p) ==
  IF Len(node) = 1 THEN node[1] = p
  ELSE LET ys == [i \in 1..Len(node) |-> node[i][1]] \o <<>>
           xs == [i \in 1..Len(node) |-> node[i][2]] \o <<>>
       IN /\ p[1] >= SeqMin(ys) /\ p[1] <= SeqMax(ys)
          /\ p[2] >= SeqMin(xs) /\ p[2] <= SeqMax(xs)

RECURSIVE getExprs(_, _, _, _)
getExprs(node, key, base, lat) ==
  IF Len(node) = 1 THEN << exprFuncs(key, base, lat, node[1]) >>
  ELSE LET qs == quads(node)
       IN Flatten([k \in 1..Len(qs) |-> getExprs(qs[k], key, base, lat)])

\* the descent to the leaf of p, a point of the tree
RECURSIVE getPointExpr(_, _, _, _, _)
getPointExpr(node, key, p, base, lat) ==
  IF Len(node) = 1 THEN exprFuncs(key, base, lat, node[1])
  ELSE LET mid == midSums(node)
       IN getPointExpr(
            SelectSeq(node, LAMBDA q : (2 * q[1] < mid[1]) = (2 * p[1] < mid[1])
                                         /\ (2 * q[2] < mid[2]) = (2 * p[2] < mid[2])),
            key, p, base, lat)

\* the conjunction of the expressions of all points but `points` (a set);
\* <<>> stands for undefined
RECURSIVE getOtherPointsExpr(_, _, _, _, _)
getOtherPointsExpr(node, key, points, base, lat) ==
  IF Len(node) = 1
  THEN IF node[1] \notin points THEN getPointExpr(node, key, node[1], base, lat) ELSE <<>>
  ELSE LET coveredPoints == {p \in points : coversPoint(node, p)}
           qs == quads(node)
       IN IF coveredPoints # {}
          THEN And(SelectSeq(
                 [k \in 1..Len(qs) |->
                    getOtherPointsExpr(qs[k], key, coveredPoints, base, lat)],
                 LAMBDA t : t # <<>>))
          ELSE And(getExprs(node, key, base, lat))

(***************************************************************************)
(* ShapeConstrainer constraints (src/lib/constraints/shapes.ts)            *)
(***************************************************************************)
\* the points a variant covers when its first offset is placed at rootPoint
variantPoints(rootPoint, variant) ==
  [j \in 1..Len(variant) |-> translate(rootPoint, variant[j])] \o <<>>

\* variant: the cells outside the placement are left unconstrained
rootOptionNoOthers(base, lat, instanceId, shapeIndex, points) ==
  And(Flatten([j \in 1..Len(points) |->
        << getPointExpr(lat, <<"HAS_INSTANCE_ID", instanceId>>, points[j], base, lat),
           getPointExpr(lat, <<"HAS_SHAPE_TYPE", shapeIndex>>, points[j], base, lat) >>]))

\* the option of a root point: the variant is placed here
rootOption(base, lat, instanceId, shapeIndex, points) ==
  LET andTerms == Flatten([j \in 1..Len(points) |->
        << getPointExpr(lat, <<"HAS_INSTANCE_ID", instanceId>>, points[j], base, lat),
           getPointExpr(lat, <<"HAS_SHAPE_TYPE", shapeIndex>>, points[j], base, lat) >>])
      otherPointsExpr == getOtherPointsExpr(lat, <<"NOT_HAS_INSTANCE_ID", instanceId>>,
                           {points[j] : j \in 1..Len(points)}, base, lat)
  IN And(andTerms \o (IF otherPointsExpr # <<>> THEN <<otherPointsExpr>> ELSE <<>>))

ScAddShapeInstanceConstraints(base, lat, variants) ==
  [i \in 1..Len(lat) |->
    LET p == lat[i]
        instanceId == pointToIndex(lat, p)
        rootOptions == Flatten([s \in 1..Len(variants) |->
          Flatten([v \in 1..Len(variants[s]) |->
            LET points == variantPoints(p, variants[s][v])
            IN IF \A j \in 1..Len(points) : HasPoint(lat, points[j])
               THEN << rootOption(base, lat, instanceId, s - 1, points) >>
               ELSE <<>>])])
        notHasInstanceIdExpr ==
          getOtherPointsExpr(lat, <<"NOT_HAS_INSTANCE_ID", instanceId>>, {}, base, lat)
    IN IF Len(rootOptions) > 0
       THEN Or(rootOptions \o <<notHasInstanceIdExpr>>)
       ELSE notHasInstanceIdExpr]

\* variant: every cell that has a shape type is counted
ScAddSingleCopyConstraintsAnyType(base, lat, shapeIndex, shape) ==
  PbEq([i \in 1..Len(lat) |-> Neq(shapeTypeGrid(base, lat, lat[i]), Val(-1))],
       [i \in 1..Len(lat) |-> 1], Len(shape))

\* variant: at most the cells of one copy instead of exactly
ScAddSingleCopyConstraintsAtMost(base, lat, shapeIndex, shape) ==
  Le(Sum([i \in 1..Len(lat) |->
            If(Eq(shapeTypeGrid(base, lat, lat[i]), Val(shapeIndex)), Val(1), Val(0))]),
     Val(Len(shape)))

ScAddSingleCopyConstraints(base, lat, shapeIndex, shape) ==
  PbEq([i \in 1..Len(lat) |-> Eq(shapeTypeGrid(base, lat, lat[i]), Val(shapeIndex))],
       [i \in 1..Len(lat) |-> 1], Len(shape))

ScAddConstraints(base, lat, shapes, variants, allowCopies) ==
  ScAddGridAgreementConstraints(base, lat)
    \o ScAddShapeInstanceConstraints(base, lat, variants)
    \o (IF ~allowCopies
        THEN [i \in 1..Len(shapes) |-> ScAddSingleCopyConstraints(base, lat, i - 1, shapes[i])]
        ELSE <<>>)

\* new ShapeConstrainer(context, lattice, shapes, solver, complete,
\*                      allowRotations, allowReflections, allowCopies)
ShapeConstrainer(base, lat, shapes, complete, allowRotations, allowReflections, allowCopies) ==
  ScCreateGrids(base, lat, Len(shapes), complete)
    \o ScAddConstraints(base, lat, shapes,
         makeVariants(shapes, allowRotations, allowReflections), allowCopies)

(***************************************************************************)
(* ExpressionQuadTree with its caches (src/lib/utils/quadTree.ts).  A node *)
(* is the sequence of its points; a z3 expression object made by the tree  *)
(* is <<"func", key, node, n>> for the n-th call of the expression         *)
(* function of the key at the leaf, <<"and", key, node, n, terms>> for the *)
(* n-th conjunction built over the whole node, <<"conj", terms>> for a     *)
(* conjunction built for one call; <<"undefined">> and <<"error">> stand   *)
(* for a return of undefined and a thrown error.  The state `st` of a tree *)
(* holds exprs, the entries <<node, key, object>> of the _exprs maps of    *)
(* all nodes, made, the objects made so far, and value, the value returned.*)
(***************************************************************************)
\* the next object of the kind made for the key at the node
qtNewObject(st, kind, key, node, terms) ==
  LET n == 1 + Cardinality({o \in st.made : o[1] = kind /\ o[2] = key /\ o[3] = node})
  IN IF kind = "func" THEN <<kind, key, node, n>> ELSE <<kind, key, node, n, terms>>

\* this._exprs.has(key) and this._exprs.get(key) of the node
qtHasExpr(st, node, key) == \E c \in st.exprs : c[1] = node /\ c[2] = key

qtExprsGet(st, node, key) == (CHOOSE c \in st.exprs : c[1] = node /\ c[2] = key)[3]

\* variant: a leaf calls the expression function on every request
qtLeafExprUncached(node, key, st) ==
  LET o == qtNewObject(st, "func", key, node, <<>>)
  IN [exprs |-> {c \in st.exprs : ~(c[1] = node /\ c[2] = key)} \cup {<<node, key, o>>},
      made |-> st.made \cup {o}, value |-> o]

\* the expression of a leaf: let expr = this._exprs.get(key); if (!expr) {...}
qtLeafExpr(node, key, st) ==
  IF qtHasExpr(st, node, key)
  THEN [st EXCEPT !.value = qtExprsGet(st, node, key)]
  ELSE LET o == qtNewObject(st, "func", key, node, <<>>)
       IN [exprs |-> st.exprs \cup {<<node, key, o>>}, made |-> st.made \cup {o},
           value |-> o]

RECURSIVE qtGetExprs(_, _, _)
RECURSIVE qtFlatMap(_, _, _)
RECURSIVE qtGetPointExpr(_, _, _, _)
RECURSIVE qtGetOtherPointsExpr(_, _, _, _)
RECURSIVE qtMapOthers(_, _, _, _)

\* getExprs(key): the value is the list of the expressions of the leaves
qtGetExprs(node, key, st) ==
  IF Len(node) = 1
  THEN LET r == qtLeafExpr(node, key, st) IN [r EXCEPT !.value = <<r.value>>]
  ELSE qtFlatMap(quads(node), key, [st EXCEPT !.value = <<>>])

\* this._quads.flatMap(q => q.getExprs(key)), st.value holding the list so far
qtFlatMap(qs, key, st) ==
  IF qs = <<>> THEN st
  ELSE LET r == qtGetExprs(Head(qs), key, st)
       IN qtFlatMap(Tail(qs), key, [r EXCEPT !.value = st.value \o r.value])

\* getPointExpr(key, p)
qtGetPointExpr(node, key, p, st) ==
  IF Len(node) = 1
  THEN IF node[1] = p THEN qtLeafExpr(node, key, st)
       ELSE [st EXCEPT !.value = <<"error">>]
  ELSE LET mid == midSums(node)
           quad == SelectSeq(node, LAMBDA q : (2 * q[1] < mid[1]) = (2 * p[1] < mid[1])
                                                /\ (2 * q[2] < mid[2]) = (2 * p[2] < mid[2]))
       IN IF quad = <<>> THEN [st EXCEPT !.value = <<"error">>]
          ELSE qtGetPointExpr(quad, key, p, st)

\* variant: the conjunction over a whole node is built on every request
qtWholeNodeExprUncached(node, key, st) ==
  LET r == qtGetExprs(node, key, st)
      o == qtNewObject(r, "and", key, node, r.value)
  IN [exprs |-> {c \in r.exprs : ~(c[1] = node /\ c[2] = key)} \cup {<<node, key, o>>},
      made |-> r.made \cup {o}, value |-> o]

\* the end of getOtherPointsExpr: the cached conjunction over the whole node
qtWholeNodeExpr(node, key, st) ==
  IF qtHasExpr(st, node, key)
  THEN [st EXCEPT !.value = qtExprsGet(st, node, key)]
  ELSE LET r == qtGetExprs(node, key, st)
           o == qtNewObject(r, "and", key, node, r.value)
       IN [exprs |-> r.exprs \cup {<<node, key, o>>}, made |-> r.made \cup {o},
           value |-> o]

\* variant: a node that covers an excluded point leaves out all its points
qtGetOtherPointsExprCoarse(node, key, points, st) ==
  IF \E p \in points : coversPoint(node, p)
  THEN [st EXCEPT !.value = IF Len(node) = 1 THEN <<"undefined">> ELSE <<"conj", <<>>>>]
  ELSE IF Len(node) = 1 THEN qtGetPointExpr(node, key, node[1], st)
  ELSE qtWholeNodeExpr(node, key, st)

\* getOtherPointsExpr(key, points), points a set
qtGetOtherPointsExpr(node, key, points, st) ==
  IF Len(node) = 1
  THEN IF node[1] \notin points THEN qtGetPointExpr(node, key, node[1], st)
       ELSE [st EXCEPT !.value = <<"undefined">>]
  ELSE LET coveredPoints == {p \in points : coversPoint(node, p)}
       IN IF coveredPoints # {}
          THEN LET r == qtMapOthers(quads(node), key, coveredPoints,
                                    [st EXCEPT !.value = <<>>])
               IN [r EXCEPT !.value = <<"conj", r.value>>]
          ELSE qtWholeNodeExpr(node, key, st)

\* this._quads.map(q => q.getOtherPointsExpr(key, coveredPoints)).filter(Boolean)
qtMapOthers(qs, key, coveredPoints, st) ==
  IF qs = <<>> THEN st
  ELSE LET r == qtGetOtherPointsExpr(Head(qs), key, coveredPoints, st)
           terms == IF r.value[1] = "undefined" THEN st.value
                    ELSE Append(st.value, r.value)
       IN qtMapOthers(Tail(qs), key, coveredPoints, [r EXCEPT !.value = terms])
(***************************************************************************)
(* Sightlines (src/unnamed/part_000): reduceCells and countCells.          *)
(***************************************************************************)
\* the callbacks a caller passes to countCells, by name; `cell` is the grid
\* constant of the start point, as in the sightline test
countCallback(kind, cell, c) ==
  CASE kind = "default" -> Val(1)
    [] kind = "sameAsStart" -> If(Eq(c, cell), Val(1), Val(0))

stopCallback(kind, cell, c) ==
  CASE kind = "default" -> Val(FALSE)
    [] kind = "isB" -> Eq(c, Val(1))
    [] kind = "differsFromStart" -> Neq(c, cell)

\* the callbacks a caller passes to reduceCells, by name
accumulateCallback(kind, a, c, p) ==
  CASE kind = "addIndex" -> Add(a, c)
    [] kind = "addColumn" -> Add(a, Val(p[2]))

reduceStopCallback(kind, a, c, p) ==
  CASE kind = "default" -> Val(FALSE)
    [] kind = "accAtLeast2" -> Ge(a, Val(2))
    [] kind = "isB" -> Eq(c, Val(1))

\* accumulate and stop as reduceCells receives them: countCells wraps its
\* callbacks as (a, c) => a.add(count(c)) and (_, c) => stop(c)
accumulate(c, a, cell, p) ==
  IF c.api = "countCells"
  THEN Add(a, countCallback(c.count, sgGrid(0, c.lattice, c.start), cell))
  ELSE accumulateCallback(c.accumulate, a, cell, p)

stop(c, a, cell, p) ==
  IF c.api = "countCells"
  THEN stopCallback(c.stop, sgGrid(0, c.lattice, c.start), cell)
  ELSE reduceStopCallback(c.stop, a, cell, p)

\* variant: the walk passes over a missing point when the lattice has a
\* point further along the line
RECURSIVE walkTermsThroughHoles(_, _, _)
walkTermsThroughHoles(c, p, last) ==
  LET v == edgeSharingDirections[c.direction].vector
  IN IF ~\E k \in 0..Len(c.lattice) : HasPoint(c.lattice, <<p[1] + k * v[1], p[2] + k * v[2]>>)
     THEN <<>>
     ELSE IF ~HasPoint(c.lattice, p) THEN walkTermsThroughHoles(c, translate(p, v), last)
     ELSE LET cell == sgGrid(0, c.lattice, p)
              accTerm == accumulate(c, last, cell, p)
          IN <<<<accTerm, stop(c, accTerm, cell, p)>>>>
               \o walkTermsThroughHoles(c, translate(p, v), accTerm)

\* the while loop of reduceCells: the terms pushed from point p onwards,
\* as pairs <<accTerm, stopTerm>>; last is accTerms[accTerms.length - 1]
RECURSIVE walkTerms(_, _, _)
walkTerms(c, p, last) ==
  IF ~HasPoint(c.lattice, p) THEN <<>>
  ELSE LET cell == sgGrid(0, c.lattice, p)
           accTerm == accumulate(c, last, cell, p)
       IN <<<<accTerm, stop(c, accTerm, cell, p)>>>>
            \o walkTerms(c, translate(p, edgeSharingDirections[c.direction].vector), accTerm)

\* the for loop of reduceCells over zip(stopTerms.reverse(), accTerms.reverse()):
\* If(stopTerm, accTerm, expr), innermost pair first
RECURSIVE foldTerms(_, _, _)
foldTerms(stopTerms, accTerms, e) ==
  IF stopTerms = <<>> \/ accTerms = <<>> THEN e
  ELSE foldTerms(Tail(stopTerms), Tail(accTerms), If(Head(stopTerms), Head(accTerms), e))

Reverse(s) == [i \in 1..Len(s) |-> s[Len(s) + 1 - i]]

\* variant: each stop term is paired with the accumulated term of its own cell
reduceCellsInclusive(c, initializer) ==
  LET terms == walkTerms(c, c.start, initializer)
      stopTerms == [i \in 1..Len(terms) |-> terms[i][2]]
      accTerms == <<initializer>> \o [i \in 1..Len(terms) |-> terms[i][1]]
  IN foldTerms(Reverse(stopTerms), Reverse(Tail(accTerms)), accTerms[Len(accTerms)])

reduceCells(c, initializer) ==
  LET terms == walkTerms(c, c.start, initializer)
      stopTerms == [i \in 1..Len(terms) |-> terms[i][2]]
      accTerms == <<initializer>> \o [i \in 1..Len(terms) |-> terms[i][1]]
      popped == SubSeq(accTerms, 1, Len(accTerms) - 1)
  IN foldTerms(Reverse(stopTerms), Reverse(popped), accTerms[Len(accTerms)])

countCells(c) == reduceCells(c, Val(0))
(***************************************************************************)
(* The names of the z3 constants.  Every component asks the context for    *)
(* an integer constant by name, context.Int.const(name); the context       *)
(* returns the constant that already has the name, or creates one.         *)
(***************************************************************************)
MaxBuilds == 3       \* largest number of components constructed in one context

InitContext ==
  /\ instanceIndex = [sg |-> 0, rc |-> 0, pc |-> 0, sc |-> 0]
  /\ consts = <<>>
  /\ created = <<>>

\* the decimal digits of a natural number, as in a template literal
RECURSIVE Digits(_)
Digits(n) ==
  LET d == <<"0", "1", "2", "3", "4", "5", "6", "7", "8", "9">>[(n % 10) + 1]
  IN IF n < 10 THEN <<d>> ELSE Append(Digits(n \div 10), d)

\* `${n}` for an integer n
NumberToString(n) == IF n < 0 THEN <<"-">> \o Digits(0 - n) ELSE Digits(n)

\* `${prefix}${index}${sep}${p.y}-${p.x}`, as a sequence of characters
constName(prefix, sep, index, p) ==
  prefix \o NumberToString(index) \o sep \o NumberToString(p[1]) \o <<"-">>
    \o NumberToString(p[2])

\* the names of the constants of one grid, in the order of lattice.points
gridNames(prefix, sep, index, lat) ==
  [i \in 1..Len(lat) |-> constName(prefix, sep, index, lat[i])]

sgNames(index, lat) == gridNames(<<"s", "g", "_">>, <<"_">>, index, lat)

rcNames(index, lat) ==
  gridNames(<<"r", "c", "p", "-">>, <<"-">>, index, lat)
    \o gridNames(<<"r", "c", "s", "s", "-">>, <<"-">>, index, lat)
    \o gridNames(<<"r", "c", "i", "d", "-">>, <<"-">>, index, lat)
    \o gridNames(<<"r", "c", "r", "s", "-">>, <<"-">>, index, lat)

pcNames(index, lat) ==
  gridNames(<<"p", "c", "p", "i", "-">>, <<"-">>, index, lat)
    \o gridNames(<<"p", "c", "p", "o", "-">>, <<"-">>, index, lat)

scNames(index, lat) ==
  gridNames(<<"s", "c", "s", "t", "-">>, <<"-">>, index, lat)
    \o gridNames(<<"s", "c", "s", "i", "-">>, <<"-">>, index, lat)

\* the context after Int.const(name) for each of the names in turn
RECURSIVE Intern(_, _)
Intern(cs, names) ==
  IF names = <<>> THEN cs
  ELSE Intern(IF \E i \in 1..Len(cs) : cs[i] = Head(names) THEN cs
              ELSE Append(cs, Head(names)),
              Tail(names))

\* the number of constants that precede the constant with the given name
constBase(cs, name) == (CHOOSE i \in 1..Len(cs) : cs[i] = name) - 1

\* the number of the component instance being constructed
Owner == IF created = <<>> THEN 1 ELSE created[Len(created)].owner + 1

\* the Int.const calls of the instance being constructed
Requests(names) == [i \in 1..Len(names) |-> [name |-> names[i], owner |-> Owner]]

\* a caller may construct a component: once, in the order the caller of
\* this configuration follows, or MaxBuilds components in any order
MayConstruct(kinds, st) ==
  IF cfg.kind = "names" THEN Owner <= MaxBuilds
  ELSE cfg.kind \in kinds /\ status = st

StatusAfter(st) == IF cfg.kind = "names" THEN status ELSE st
(***************************************************************************)
(* The solver calls shared by all components.                              *)
(***************************************************************************)
\* z3 integers are unbounded; the search for the i-th constant ranges over
\* this finite interval, which is wider on both sides than every bound the
\* components assert on it and than every value a constant without an
\* asserted bound takes in a model.
IntRange(c, i) ==
  IF c.kind = "path" /\ i <= Len(c.lattice)
  THEN (0 - 2)..(pathSymbolSetMaxIndex(TRUE, 1) + 1)
  ELSE IF c.kind = "region" /\ i <= Len(c.lattice)
  THEN (0 - 2)..(Len(parentTypes) + 1)
  ELSE (0 - 2)..(Len(c.lattice) + 1)

\* the order in which the search assigns the constants: in order of creation,
\* or cell by cell (for each cell its constant in every grid of the component)
SearchOrder(c, n) ==
  LET len == Len(c.lattice)
      grids == n \div len
  IN IF c.kind # "shape" THEN [k \in 1..n |-> k]
     ELSE [k \in 1..n |-> ((k - 1) % grids) * len + ((k - 1) \div grids) + 1]

\* solver.check() followed by solver.model()
Check(store, n, c) ==
  \E ms \in {Models(store, n, [i \in 1..n |-> IntRange(c, i)], SearchOrder(c, n))} :
    IF ms = {}
    THEN /\ status' = "unsat"
         /\ model' = <<>>
    ELSE /\ status' = "sat"
         /\ model' \in ms

\* SymbolGrid.solve(): (await solver.check()) === 'sat'
Solve ==
  /\ status = "built"
  /\ Check(solver, nvars, cfg)
  /\ ret' = (status' = "sat")
  /\ UNCHANGED <<cfg, solver, nvars, expr, history>>
  /\ UNCHANGED <<instanceIndex, consts, created>>

(***************************************************************************)
(* SymbolGrid.isUnique (src/lib/grids.ts)                                  *)
(***************************************************************************)
\* variant: every grid cell differs from the model
differsEverywhere(lat, m) ==
  And([i \in 1..Len(lat) |->
        Neq(sgGrid(0, lat, lat[i]), Val(Eval(sgGrid(0, lat, lat[i]), m)[2]))])

\* Or(...orTerms): one term cell.neq(model.eval(cell)) per grid cell, in the
\* order of the grid map
differsFromModel(lat, m) ==
  Or([i \in 1..Len(lat) |->
        Neq(sgGrid(0, lat, lat[i]), Val(Eval(sgGrid(0, lat, lat[i]), m)[2]))])

\* SymbolGrid.isUnique(), called after a successful solve
IsUnique ==
  /\ status = "sat"
  /\ Len(history) + Len(cfg.lattice) <= MaxCells
  /\ solver' = Append(solver, differsFromModel(cfg.lattice, model))
  /\ Check(Append(solver, differsFromModel(cfg.lattice, model)), nvars, cfg)
  /\ ret' = (status' = "unsat")
  /\ history' = Append(history, model)
  /\ UNCHANGED <<cfg, nvars, expr>>
  /\ UNCHANGED <<instanceIndex, consts, created>>
(***************************************************************************)
(* Specification of the RegionConstrainer.                                 *)
(***************************************************************************)
\* <<minRegionSize, maxRegionSize>>; 0 stands for an omitted (undefined) argument
RegionSizeArgs == {<<0, 0>>, <<2, 3>>}

RegionConfigs ==
  {[kind |-> "region", lattice |-> lat, complete |-> c, rectangular |-> r,
    minRegionSize |-> sz[1], maxRegionSize |-> sz[2]] :
     lat \in Lattices, c \in BOOLEAN, r \in BOOLEAN, sz \in RegionSizeArgs}

InitRegion ==
  /\ cfg \in RegionConfigs
  /\ solver = <<>>
  /\ nvars = 0
  /\ status = "new"
  /\ model = <<>>
  /\ expr = <<>>
  /\ history = <<>>
  /\ ret = FALSE
  /\ InitContext

\* new RegionConstrainer(lattice, solver, complete, rectangular, min, max)
RcConstruct ==
  /\ MayConstruct({"region"}, "new")
  /\ LET names == rcNames(instanceIndex.rc + 1, cfg.lattice)
         cs == Intern(consts, names)
     IN /\ instanceIndex' = [instanceIndex EXCEPT !.rc = @ + 1]
        /\ consts' = cs
        /\ created' = created \o Requests(names)
        /\ nvars' = Len(cs)
        /\ solver' = solver \o RegionConstrainer(constBase(cs, names[1]), cfg.lattice,
                        cfg.complete, cfg.rectangular, cfg.minRegionSize,
                        cfg.maxRegionSize)
  /\ status' = StatusAfter("built")
  /\ UNCHANGED <<cfg, model, expr, history, ret>>

NextRegion == RcConstruct \/ Solve

SpecRegion == InitRegion /\ [][NextRegion]_vars

(***************************************************************************)
(* Specification of a SymbolGrid over a PathSymbolSet with one appended    *)
(* blank symbol, constrained by a PathConstrainer.                         *)
(***************************************************************************)
PathConfigs ==
  {[kind |-> "path", lattice |-> lat, includeTerminals |-> t, complete |-> c,
    allowTerminatedPaths |-> a, allowLoops |-> l] :
     lat \in Lattices, t \in BOOLEAN, c \in BOOLEAN, a \in BOOLEAN, l \in BOOLEAN}

InitPath ==
  /\ cfg \in PathConfigs
  /\ solver = <<>>
  /\ nvars = 0
  /\ status = "new"
  /\ model = <<>>
  /\ expr = <<>>
  /\ history = <<>>
  /\ ret = FALSE
  /\ InitContext

\* SymbolSet.maxIndex() of the caller's symbol set: a PathSymbolSet with one
\* appended blank symbol, or a plain list of symbols
symbolSetMaxIndex(c) ==
  IF c.kind \in {"path", "names"} THEN pathSymbolSetMaxIndex(c.includeTerminals, 1)
  ELSE Len(c.symbols) - 1

\* sym = new PathSymbolSet(lattice, includeTerminals); sym.append('BLANK');
\* sg = new SymbolGrid(lattice, sym)
SgConstruct ==
  /\ MayConstruct({"path", "sight"}, "new")
  /\ LET names == sgNames(instanceIndex.sg, cfg.lattice)
         cs == Intern(consts, names)
     IN /\ consts' = cs
        /\ created' = created \o Requests(names)
        /\ nvars' = Len(cs)
        /\ solver' = solver \o SymbolGrid(constBase(cs, names[1]), cfg.lattice, 0,
                        symbolSetMaxIndex(cfg))
  /\ status' = StatusAfter("grid")
  /\ UNCHANGED <<cfg, model, expr, history, ret, instanceIndex>>

\* pc = new PathConstrainer(sg, complete, allowTerminatedPaths, allowLoops),
\* sg being the SymbolGrid constructed last
PcConstruct ==
  /\ MayConstruct({"path"}, "grid")
  /\ \E i \in 1..Len(consts) : consts[i] = sgNames(instanceIndex.sg, cfg.lattice)[1]
  /\ LET names == pcNames(instanceIndex.pc + 1, cfg.lattice)
         cs == Intern(consts, names)
         sg == constBase(cs, sgNames(instanceIndex.sg, cfg.lattice)[1])
         base == constBase(cs, names[1])
     IN /\ instanceIndex' = [instanceIndex EXCEPT !.pc = @ + 1]
        /\ consts' = cs
        /\ created' = created \o Requests(names)
        /\ nvars' = Len(cs)
        /\ solver' = solver \o PathConstrainer(sg, base, cfg.lattice,
                        cfg.includeTerminals, cfg.complete, cfg.allowTerminatedPaths,
                        cfg.allowLoops)
        /\ expr' = numPaths(base, cfg.lattice)
  /\ status' = StatusAfter("built")
  /\ UNCHANGED <<cfg, model, history, ret>>

NextPath == SgConstruct \/ PcConstruct \/ Solve

SpecPath == InitPath /\ [][NextPath]_vars
(***************************************************************************)
(* Specification of the ShapeConstrainer.                                  *)
(***************************************************************************)
MaxShapes == 2

\* the shape definitions of the callers: a domino whose offsets are given
\* out of order, an L tromino and the 2x2 square
ShapeDefs ==
  << << <<0, 1>>, <<0, 0>> >>,
     << <<0, 0>>, <<1, 0>>, <<1, 1>> >>,
     << <<0, 0>>, <<0, 1>>, <<1, 0>>, <<1, 1>> >> >>

\* the shape lists of 1 .. n definitions, the same definition possibly
\* repeated, the definitions in the order of ShapeDefs
RECURSIVE ShapeLists(_)
ShapeLists(n) ==
  IF n = 1 THEN {<<d>> : d \in 1..Len(ShapeDefs)}
  ELSE LET shorter == ShapeLists(n - 1)
       IN shorter \cup {Append(l, d) : l \in {s \in shorter : Len(s) = n - 1},
                                         d \in 1..Len(ShapeDefs)}

ShapeConfigs ==
  {[kind |-> "shape", lattice |-> lat, shapes |-> l, complete |-> c,
    allowRotations |-> ro, allowReflections |-> re, allowCopies |-> co] :
     lat \in Lattices,
     l \in {[j \in 1..Len(ds) |-> ShapeDefs[ds[j]]] :
              ds \in {s \in ShapeLists(MaxShapes) : \A j \in 1..(Len(s) - 1) : s[j] <= s[j + 1]}},
     c \in BOOLEAN, ro \in BOOLEAN, re \in BOOLEAN, co \in BOOLEAN}

InitShape ==
  /\ cfg \in ShapeConfigs
  /\ solver = <<>>
  /\ nvars = 0
  /\ status = "new"
  /\ model = <<>>
  /\ expr = <<>>
  /\ history = <<>>
  /\ ret = FALSE
  /\ InitContext

\* new ShapeConstrainer(lattice, shapes, solver, complete, allowRotations,
\* allowReflections, allowCopies)
ScConstruct ==
  /\ MayConstruct({"shape"}, "new")
  /\ LET names == scNames(instanceIndex.sc + 1, cfg.lattice)
         cs == Intern(consts, names)
     IN /\ instanceIndex' = [instanceIndex EXCEPT !.sc = @ + 1]
        /\ consts' = cs
        /\ created' = created \o Requests(names)
        /\ nvars' = Len(cs)
        /\ solver' = solver \o ShapeConstrainer(constBase(cs, names[1]), cfg.lattice,
                        cfg.shapes, cfg.complete, cfg.allowRotations,
                        cfg.allowReflections, cfg.allowCopies)
  /\ status' = StatusAfter("built")
  /\ UNCHANGED <<cfg, model, expr, history, ret>>

NextShape == ScConstruct \/ Solve

SpecShape == InitShape /\ [][NextShape]_vars

(***************************************************************************)
(* Specification of a sightline computed over a SymbolGrid of the symbols  *)
(* A and B.                                                                *)
(***************************************************************************)
SightSymbols == <<"A", "B">>

\* start points: every lattice point and one point outside the lattice
SightStarts(lat) == {lat[i] : i \in 1..Len(lat)} \cup {<<0 - 1, 0>>}

\* grids that are not convex: a row with one point missing between its ends
HoleLattices ==
  {RectangularLattice(SelectSeq(RaggedPoints(w, w), LAMBDA q : q[2] # h)) :
     w \in 3..MaxCells, h \in 1..(MaxCells - 2)} \ Lattices

SightLattices == Lattices \cup HoleLattices

\* countCells(grid, start, direction, count, stop); callbacks that read the
\* start cell need grid.cellAt(start) to exist
CountConfigs ==
  {c \in [kind : {"sight"}, api : {"countCells"}, lattice : SightLattices,
          symbols : {SightSymbols}, start : UNION {SightStarts(lat) : lat \in SightLattices},
          direction : 1..NumDirs, initializer : {0}, accumulate : {"add"},
          count : {"default", "sameAsStart"},
          stop : {"default", "isB", "differsFromStart"}] :
     /\ c.start \in SightStarts(c.lattice)
     /\ (c.count = "sameAsStart" \/ c.stop = "differsFromStart")
           => HasPoint(c.lattice, c.start)}

\* reduceCells(grid, start, direction, initializer, accumulate, stop)
ReduceConfigs ==
  {c \in [kind : {"sight"}, api : {"reduceCells"}, lattice : SightLattices,
          symbols : {SightSymbols}, start : UNION {SightStarts(lat) : lat \in SightLattices},
          direction : 1..NumDirs, initializer : {0, 1},
          accumulate : {"addIndex", "addColumn"}, count : {"none"},
          stop : {"default", "accAtLeast2"}] :
     c.start \in SightStarts(c.lattice)}

SightConfigs == CountConfigs \cup ReduceConfigs

InitSight ==
  /\ cfg \in SightConfigs
  /\ solver = <<>>
  /\ nvars = 0
  /\ status = "new"
  /\ model = <<>>
  /\ expr = <<>>
  /\ history = <<>>
  /\ ret = FALSE
  /\ InitContext

\* count = countCells(grid, start, direction, count, stop)
CountCells ==
  /\ status = "grid"
  /\ cfg.kind = "sight"
  /\ cfg.api = "countCells"
  /\ expr' = countCells(cfg)
  /\ status' = "built"
  /\ UNCHANGED <<cfg, solver, nvars, model, history, ret>>
  /\ UNCHANGED <<instanceIndex, consts, created>>

\* value = reduceCells(grid, start, direction, initializer, accumulate, stop)
ReduceCells ==
  /\ status = "grid"
  /\ cfg.kind = "sight"
  /\ cfg.api = "reduceCells"
  /\ expr' = reduceCells(cfg, Val(cfg.initializer))
  /\ status' = "built"
  /\ UNCHANGED <<cfg, solver, nvars, model, history, ret>>
  /\ UNCHANGED <<instanceIndex, consts, created>>

NextSight == SgConstruct \/ CountCells \/ ReduceCells \/ Solve

SpecSight == InitSight /\ [][NextSight]_vars
(***************************************************************************)
(* Specification of solve and repeated isUnique calls on a SymbolGrid      *)
(* constrained by a PathConstrainer, whose path instance and path order    *)
(* constants are not part of the grid.                                     *)
(***************************************************************************)
\* one row of fewer than MaxCells cells
GridConfigs ==
  {c \in PathConfigs :
     \E n \in 1..(MaxCells - 1) : c.lattice = RectangularLattice(RaggedPoints(n, n))}

InitGrid ==
  /\ cfg \in GridConfigs
  /\ solver = <<>>
  /\ nvars = 0
  /\ status = "new"
  /\ model = <<>>
  /\ expr = <<>>
  /\ history = <<>>
  /\ ret = FALSE
  /\ InitContext

NextGrid == SgConstruct \/ PcConstruct \/ Solve \/ IsUnique

SpecGrid == InitGrid /\ [][NextGrid]_vars
(***************************************************************************)
(* Specification of a caller that constructs several components, in any    *)
(* order, over one lattice in one z3 context.                               *)
(***************************************************************************)
NamesConfigs ==
  {[kind |-> "names", lattice |-> lat, includeTerminals |-> TRUE, complete |-> FALSE,
    rectangular |-> FALSE, minRegionSize |-> 0, maxRegionSize |-> 0,
    allowTerminatedPaths |-> TRUE, allowLoops |-> TRUE,
    shapes |-> <<ShapeDefs[1]>>, allowRotations |-> FALSE,
    allowReflections |-> FALSE, allowCopies |-> FALSE] : lat \in Lattices}

InitNames ==
  /\ cfg \in NamesConfigs
  /\ solver = <<>>
  /\ nvars = 0
  /\ status = "new"
  /\ model = <<>>
  /\ expr = <<>>
  /\ history = <<>>
  /\ ret = FALSE
  /\ InitContext

NextNames == SgConstruct \/ RcConstruct \/ PcConstruct \/ ScConstruct

SpecNames == InitNames /\ [][NextNames]_vars
(***************************************************************************)
(* Specification of the lattice constructors applied to a caller's list of *)
(* points, which may repeat a point.                                       *)
(***************************************************************************)
PointChoices == {<<y, x>> : y \in (0 - 1)..1, x \in 0..1}

RECURSIVE PointLists(_)
PointLists(n) ==
  IF n = 0 THEN {<<>>}
  ELSE LET shorter == PointLists(n - 1)
       IN shorter \cup {Append(l, p) : l \in {s \in shorter : Len(s) = n - 1},
                                         p \in PointChoices}

\* a % b of JavaScript: the sign of the result is the sign of a
JsRemainder(a, b) == IF a < 0 THEN 0 - ((0 - a) % b) ELSE a % b

\* the check of the HexagonalLattice constructor
hexagonalPointsAccepted(points) ==
  \A i \in 1..Len(points) : JsRemainder(points[i][1] + points[i][2], 2) # 1

\* Lattice.pointToIndex: this._pointIndices.get(point.toString())
pointToIndexOrUndefined(lat, p) ==
  IF HasPoint(lat, p) THEN pointToIndex(lat, p) ELSE "undefined"

LatticeConfigs ==
  {[kind |-> "lattice", type |-> t, points |-> ps] :
     t \in {"rectangular", "hexagonal"}, ps \in PointLists(MaxCells)}

InitLattice ==
  /\ cfg \in LatticeConfigs
  /\ solver = <<>>
  /\ nvars = 0
  /\ status = "new"
  /\ model = <<>>
  /\ expr = <<>>
  /\ history = <<>>
  /\ ret = FALSE
  /\ InitContext

\* new RectangularLattice(points) / new HexagonalLattice(points): both sort
\* the points and fill the index map; the hexagonal one may throw first
LatticeConstruct ==
  /\ status = "new"
  /\ cfg.kind = "lattice"
  /\ IF cfg.type = "hexagonal" /\ ~hexagonalPointsAccepted(cfg.points)
     THEN /\ status' = "error"
          /\ expr' = expr
     ELSE /\ status' = "built"
          /\ expr' = RectangularLattice(cfg.points)
  /\ UNCHANGED <<cfg, solver, nvars, model, history, ret, instanceIndex, consts, created>>

NextLattice == LatticeConstruct

SpecLattice == InitLattice /\ [][NextLattice]_vars
(***************************************************************************)
(* Specification of the variants of one shape on each type of lattice.     *)
(***************************************************************************)
LatticeTypes == {"rectangular", "flatTopped", "pointyTopped"}

\* lattice.transformationFunctions(allowRotations, allowReflections)
latticeTransformationFunctions(type, allowRotations, allowReflections) ==
  CASE type = "rectangular" -> transformationFunctions(allowRotations, allowReflections)
    [] type = "flatTopped" ->
         flatToppedTransformationFunctions(allowRotations, allowReflections)
    [] type = "pointyTopped" ->
         pointyToppedTransformationFunctions(allowRotations, allowReflections)

\* the vectors between two points of a lattice of the type: on the hexagonal
\* lattices the coordinates of a point have an even sum
LatticeVectors(type) ==
  {v \in {<<dy, dx>> : dy \in 0..2, dx \in (0 - 1)..2} :
     type = "rectangular" \/ (v[1] + v[2]) % 2 = 0}

\* shapes of one to three cells: the origin and further offsets
VariantShapes(type) ==
  LET vs == LatticeVectors(type) \ {<<0, 0>>}
  IN {<< <<0, 0>> >>} \cup {<< <<0, 0>>, a >> : a \in vs}
       \cup {<< <<0, 0>>, q[1], q[2] >> : q \in {r \in vs \X vs : VectorLess(r[1], r[2])}}

VariantConfigs ==
  UNION {{[kind |-> "variants", type |-> t, offsets |-> o, allowRotations |-> ro,
           allowReflections |-> re] :
            o \in VariantShapes(t), ro \in BOOLEAN, re \in BOOLEAN} : t \in LatticeTypes}

InitVariants ==
  /\ cfg \in VariantConfigs
  /\ solver = <<>>
  /\ nvars = 0
  /\ status = "new"
  /\ model = <<>>
  /\ expr = <<>>
  /\ history = <<>>
  /\ ret = FALSE
  /\ InitContext

\* ShapeConstrainer._makeVariants for the shape new Shape(offsets)
MakeVariants ==
  /\ status = "new"
  /\ cfg.kind = "variants"
  /\ expr' = shapeVariants(Shape(cfg.offsets),
               latticeTransformationFunctions(cfg.type, cfg.allowRotations,
                                              cfg.allowReflections), <<>>)
  /\ status' = "built"
  /\ UNCHANGED <<cfg, solver, nvars, model, history, ret, instanceIndex, consts, created>>

\* lattice.transformationFunctions(allowRotations, allowReflections)
TransformationFunctions ==
  /\ status = "new"
  /\ cfg.kind = "variants"
  /\ expr' = latticeTransformationFunctions(cfg.type, cfg.allowRotations,
                                            cfg.allowReflections)
  /\ status' = "functions"
  /\ UNCHANGED <<cfg, solver, nvars, model, history, ret, instanceIndex, consts, created>>

NextVariants == MakeVariants \/ TransformationFunctions

SpecVariants == InitVariants /\ [][NextVariants]_vars
(***************************************************************************)
(* Specification of Shape.canonicalize applied to a caller's shape, whose  *)
(* offsets may carry payloads.                                             *)
(***************************************************************************)
OffsetChoices ==
  {<<<<dy, dx>>, payload>> : dy \in (0 - 1)..1, dx \in 0..1, payload \in {"undefined", "a"}}

RECURSIVE OffsetLists(_)
OffsetLists(n) ==
  IF n = 1 THEN {<<o>> : o \in OffsetChoices}
  ELSE LET shorter == OffsetLists(n - 1)
       IN shorter \cup {Append(l, o) : l \in {s \in shorter : Len(s) = n - 1},
                                         o \in OffsetChoices}

CanonicalConfigs == {[kind |-> "canonical", offsets |-> o] : o \in OffsetLists(MaxOffsets)}

InitCanonical ==
  /\ cfg \in CanonicalConfigs
  /\ solver = <<>>
  /\ nvars = 0
  /\ status = "new"
  /\ model = <<>>
  /\ expr = <<>>
  /\ history = <<>>
  /\ ret = FALSE
  /\ InitContext

\* new Shape(offsets).canonicalize()
Canonicalize ==
  /\ status = "new"
  /\ cfg.kind = "canonical"
  /\ expr' = canonicalize(cfg.offsets)
  /\ status' = "built"
  /\ UNCHANGED <<cfg, solver, nvars, model, history, ret, instanceIndex, consts, created>>

NextCanonical == Canonicalize

SpecCanonical == InitCanonical /\ [][NextCanonical]_vars
(***************************************************************************)
(* SymbolSet (symbols.ts).  _indexToSymbol is a Map, modelled as the       *)
(* sequence of its entries <<index, name, label>> in insertion order; a    *)
(* specification given as a plain string is a one-element tuple.           *)
(***************************************************************************)
mapKeys(map) == {map[i][1] : i \in 1..Len(map)}

mapHas(map, key) == key \in mapKeys(map)

\* Map.set: an existing key keeps its place and takes the new value
mapSet(map, key, value) ==
  IF mapHas(map, key)
  THEN [i \in 1..Len(map) |-> IF map[i][1] = key THEN value ELSE map[i]] \o <<>>
  ELSE Append(map, value)

MathMax(keys) == CHOOSE k \in keys : \A j \in keys : j <= k

MathMin(keys) == CHOOSE k \in keys : \A j \in keys : k <= j

\* variant: the next index is the number of symbols
nextUnusedIndexSize(map) == Len(map)

\* SymbolSet._nextUnusedIndex
nextUnusedIndex(map) ==
  IF Len(map) = 0 THEN 0 ELSE MathMax(mapKeys(map)) + 1

\* one iteration of the constructor's loop over the specifications
addSymbolSpec(set, spec) ==
  IF set.error THEN set
  ELSE IF Len(spec) = 1
  THEN LET i == nextUnusedIndex(set.map)
       IN [error |-> FALSE, map |-> mapSet(set.map, i, <<i, spec[1], "undefined">>)]
  ELSE IF Len(spec) = 3
  THEN IF mapHas(set.map, spec[3])
       THEN [error |-> TRUE, map |-> set.map]
       ELSE [error |-> FALSE, map |-> mapSet(set.map, spec[3], <<spec[3], spec[1], spec[2]>>)]
  ELSE IF Len(spec) = 2
  THEN LET index == nextUnusedIndex(set.map)
       IN [error |-> FALSE, map |-> mapSet(set.map, index, <<index, spec[1], spec[2]>>)]
  ELSE [error |-> TRUE, map |-> set.map]

\* new SymbolSet(symbols)
RECURSIVE SymbolSet(_)
SymbolSet(symbols) ==
  IF symbols = <<>> THEN [error |-> FALSE, map |-> <<>>]
  ELSE addSymbolSpec(SymbolSet(SubSeq(symbols, 1, Len(symbols) - 1)), symbols[Len(symbols)])

\* SymbolSet.append
append(map, name, label) ==
  LET index == nextUnusedIndex(map)
  IN mapSet(map, index, <<index, name, label>>)

minIndex(map) == MathMin(mapKeys(map))

maxIndex(map) == MathMax(mapKeys(map))

SpecChoices ==
  {<<"a">>, <<"b">>, <<"c", "C">>} \cup {<<"d", "D", i>> : i \in {0 - 1, 0, 2}}

RECURSIVE SpecLists(_)
SpecLists(n) ==
  IF n = 0 THEN {<<>>}
  ELSE LET shorter == SpecLists(n - 1)
       IN shorter \cup {Append(l, s) : l \in {t \in shorter : Len(t) = n - 1},
                                         s \in SpecChoices}

SymbolsConfigs == {[kind |-> "symbols", symbols |-> l] : l \in SpecLists(MaxSpecs)}

InitSymbols ==
  /\ cfg \in SymbolsConfigs
  /\ solver = <<>>
  /\ nvars = 0
  /\ status = "new"
  /\ model = <<>>
  /\ expr = <<>>
  /\ history = <<>>
  /\ ret = FALSE
  /\ InitContext

\* new SymbolSet(symbols): the set, or the error thrown
SsConstruct ==
  /\ status = "new"
  /\ cfg.kind = "symbols"
  /\ LET set == SymbolSet(cfg.symbols)
     IN /\ status' = IF set.error THEN "error" ELSE "built"
        /\ expr' = IF set.error THEN <<>> ELSE set.map
  /\ UNCHANGED <<cfg, solver, nvars, model, history, ret, instanceIndex, consts, created>>

\* symbolSet.append(name, label)
SsAppend ==
  /\ status = "built"
  /\ cfg.kind = "symbols"
  /\ Len(expr) <= MaxSpecs
  /\ \E name \in {"undefined", "e"}, label \in {"undefined", "E"} :
       expr' = append(expr, name, label)
  /\ UNCHANGED <<cfg, solver, nvars, status, model, history, ret, instanceIndex, consts, created>>

NextSymbols == SsConstruct \/ SsAppend

SpecSymbols == InitSymbols /\ [][NextSymbols]_vars
(***************************************************************************)
(* The parent indices of a RegionConstrainer on each type of lattice       *)
(* (regions.ts, _manageEdgeSharingDirections and the two lookups).  A Map  *)
(* is the sequence of its entries <<key, value>> in insertion order.       *)
(***************************************************************************)
latticeEdgeSharingDirections(type) ==
  CASE type = "rectangular" -> edgeSharingDirections
    [] type = "flatTopped" ->
         << [name |-> "N", vector |-> <<-2, 0>>],
            [name |-> "S", vector |-> <<2, 0>>],
            [name |-> "NE", vector |-> <<-1, 1>>],
            [name |-> "NW", vector |-> <<-1, -1>>],
            [name |-> "SE", vector |-> <<1, 1>>],
            [name |-> "SW", vector |-> <<1, -1>>] >>
    [] type = "pointyTopped" ->
         << [name |-> "E", vector |-> <<0, 2>>],
            [name |-> "W", vector |-> <<0, -2>>],
            [name |-> "NE", vector |-> <<-1, 1>>],
            [name |-> "NW", vector |-> <<-1, -1>>],
            [name |-> "SE", vector |-> <<1, 1>>],
            [name |-> "SW", vector |-> <<1, -1>>] >>

\* Direction.toString: the key of a direction in a Map<DirectionString, _>
directionToString(d) == d.name

\* Map.get
mapGet(map, key) ==
  IF mapHas(map, key) THEN (CHOOSE e \in {map[i] : i \in 1..Len(map)} : e[1] = key)[2]
  ELSE "undefined"

\* the loop over the directions; `shift` is subtracted from each index
RECURSIVE manageLoop(_, _, _)
manageLoop(dirs, n, shift) ==
  IF n = 0
  THEN [edgeSharingDirectionToIndex |-> <<>>,
        parentTypeToIndex |-> << <<"X", X>>, <<"R", R>> >>,
        parentTypes |-> <<"X", "R">>]
  ELSE LET m == manageLoop(dirs, n - 1, shift)
           d == dirs[n]
           index == Len(m.parentTypes) - shift
       IN [edgeSharingDirectionToIndex |->
             mapSet(m.edgeSharingDirectionToIndex, directionToString(d), <<directionToString(d), index>>),
           parentTypeToIndex |-> mapSet(m.parentTypeToIndex, d.name, <<d.name, index>>),
           parentTypes |-> Append(m.parentTypes, d.name)]

\* variant: the directions are numbered from R
manageEdgeSharingDirectionsFromR(dirs) == manageLoop(dirs, Len(dirs), 1)

\* RegionConstrainer._manageEdgeSharingDirections
manageEdgeSharingDirections(dirs) == manageLoop(dirs, Len(dirs), 0)

\* rc.edgeSharingDirectionToIndex(direction), given a Direction or its name
lookupEdgeSharingDirection(maps, direction, isString) ==
  mapGet(maps.edgeSharingDirectionToIndex,
         IF isString THEN direction ELSE directionToString(direction))

\* rc.parentTypeToIndex(parentType)
lookupParentType(maps, parentType) == mapGet(maps.parentTypeToIndex, parentType)

DirectionsConfigs == {[kind |-> "directions", type |-> t] : t \in LatticeTypes}

InitDirections ==
  /\ cfg \in DirectionsConfigs
  /\ solver = <<>>
  /\ nvars = 0
  /\ status = "new"
  /\ model = <<>>
  /\ expr = <<>>
  /\ history = <<>>
  /\ ret = FALSE
  /\ InitContext

\* the part of new RegionConstrainer(lattice) that fixes the parent indices
DrConstruct ==
  /\ status = "new"
  /\ cfg.kind = "directions"
  /\ expr' = manageEdgeSharingDirections(latticeEdgeSharingDirections(cfg.type))
  /\ status' = "built"
  /\ UNCHANGED <<cfg, solver, nvars, model, history, ret, instanceIndex, consts, created>>

\* a call of rc.edgeSharingDirectionToIndex; history records call and result
DrDirectionToIndex ==
  /\ status = "built"
  /\ cfg.kind = "directions"
  /\ Len(history) < MaxLookups
  /\ \E k \in 1..Len(latticeEdgeSharingDirections(cfg.type)), isString \in BOOLEAN :
       LET d == latticeEdgeSharingDirections(cfg.type)[k]
           arg == IF isString THEN d.name ELSE d
       IN history' = Append(history, <<"direction", isString, k,
                                       lookupEdgeSharingDirection(expr, arg, isString)>>)
  /\ UNCHANGED <<cfg, solver, nvars, status, model, expr, ret, instanceIndex, consts, created>>

\* a call of rc.parentTypeToIndex
DrParentTypeToIndex ==
  /\ status = "built"
  /\ cfg.kind = "directions"
  /\ Len(history) < MaxLookups
  /\ \E k \in 1..Len(expr.parentTypes) :
       history' = Append(history, <<"parentType", TRUE, k,
                                    lookupParentType(expr, expr.parentTypes[k])>>)
  /\ UNCHANGED <<cfg, solver, nvars, status, model, expr, ret, instanceIndex, consts, created>>

NextDirections == DrConstruct \/ DrDirectionToIndex \/ DrParentTypeToIndex

SpecDirections == InitDirections /\ [][NextDirections]_vars
(***************************************************************************)
(* Specification of an ExpressionQuadTree over a caller's points, with an  *)
(* expression function registered for each of two keys, and of the calls   *)
(* made on it.  history holds the _exprs maps, created the objects made,   *)
(* expr the value returned last and ret the call that returned it.         *)
(***************************************************************************)
QtBox == {<<0, 0>>, <<0, 1>>, <<0, 2>>, <<1, 1>>}

\* the subsets of at most n elements of a set
RECURSIVE SubsetsUpTo(_, _)
SubsetsUpTo(s, n) ==
  IF n = 0 THEN {{}}
  ELSE LET smaller == SubsetsUpTo(s, n - 1)
       IN smaller \cup {t \cup {e} : t \in smaller, e \in s}

\* a set of points as the list a caller passes, in reading order
RECURSIVE PointList(_)
PointList(s) ==
  IF s = {} THEN <<>>
  ELSE LET first == CHOOSE p \in s : \A q \in s : q = p \/ PointLess(p, q)
       IN <<first>> \o PointList(s \ {first})

QtKeys == {1, 2}

\* the expression functions a caller registers: the cell of p has the key
QtExprFunc(points, key, p) == Eq(Var(pointToIndex(points, p) + 1), Val(key))

\* the trees over the sets of points that leave out a point of QtBox
QuadTreeConfigs ==
  {[kind |-> "quadtree", points |-> PointList(s)] :
     s \in SubsetsUpTo(QtBox, Cardinality(QtBox) - 1)}

InitQuadTree ==
  /\ cfg \in QuadTreeConfigs
  /\ solver = <<>>
  /\ nvars = 0
  /\ status = "new"
  /\ model = <<>>
  /\ expr = <<>>
  /\ history = {}
  /\ ret = <<>>
  /\ instanceIndex = [sg |-> 0, rc |-> 0, pc |-> 0, sc |-> 0]
  /\ consts = <<>>
  /\ created = {}

\* new ExpressionQuadTree(points, exprFuncs): an empty list throws
QtConstruct ==
  /\ status = "new"
  /\ cfg.kind = "quadtree"
  /\ status' = IF Len(cfg.points) = 0 THEN "error" ELSE "built"
  /\ nvars' = Len(cfg.points)
  /\ UNCHANGED <<cfg, solver, model, expr, history, ret, instanceIndex, consts, created>>

QtMayCall ==
  /\ status = "built"
  /\ cfg.kind = "quadtree"
  /\ \A o \in created : o[4] < MaxMade

QtState == [exprs |-> history, made |-> created, value |-> <<>>]

QtReturn(call, r) ==
  /\ history' = r.exprs
  /\ created' = r.made
  /\ expr' = r.value
  /\ ret' = call
  /\ UNCHANGED <<cfg, solver, nvars, status, model, instanceIndex, consts>>

\* tree.getExprs(key)
QtGetExprs ==
  /\ QtMayCall
  /\ \E key \in QtKeys :
       QtReturn(<<"getExprs", key, {}>>, qtGetExprs(cfg.points, key, QtState))

\* tree.getPointExpr(key, p)
QtGetPointExpr ==
  /\ QtMayCall
  /\ \E key \in QtKeys, p \in QtBox :
       QtReturn(<<"getPointExpr", key, {p}>>, qtGetPointExpr(cfg.points, key, p, QtState))

\* tree.getOtherPointsExpr(key, points)
QtGetOtherPointsExpr ==
  /\ QtMayCall
  /\ \E key \in QtKeys, points \in SubsetsUpTo(QtBox \cup {<<2, 3>>}, MaxExcluded) :
       QtReturn(<<"getOtherPointsExpr", key, points>>,
                qtGetOtherPointsExpr(cfg.points, key, points, QtState))

NextQuadTree == QtConstruct \/ QtGetExprs \/ QtGetPointExpr \/ QtGetOtherPointsExpr

SpecQuadTree == InitQuadTree /\ [][NextQuadTree]_vars
(***************************************************************************)
(* Specification of Shape.equivalent on two shapes with payloads, and of   *)
(* the variants of the first one on a rectangular lattice.                 *)
(***************************************************************************)
EqPayloads == {"undefined", "a", "b"} \cup PayloadConstants

EqOffsets == {<<v, p>> : v \in {<<0, 0>>, <<0, 1>>}, p \in EqPayloads}

EqShapes == {<<o>> : o \in EqOffsets} \cup {<<o1, o2>> : o1 \in EqOffsets, o2 \in EqOffsets}

EquivalentConfigs == {[kind |-> "equivalent", a |-> a, b |-> b] : a \in EqShapes, b \in EqShapes}

InitEquivalent ==
  /\ cfg \in EquivalentConfigs
  /\ solver = <<>>
  /\ nvars = 0
  /\ status = "new"
  /\ model = <<>>
  /\ expr = <<>>
  /\ history = <<>>
  /\ ret = FALSE
  /\ InitContext

\* a.equivalent(b)
Equivalent ==
  /\ status = "new"
  /\ cfg.kind = "equivalent"
  /\ ret' = equivalent(cfg.a, cfg.b)
  /\ status' = "compared"
  /\ UNCHANGED <<cfg, solver, nvars, model, expr, history, instanceIndex, consts, created>>

\* the loop of _makeVariants over the transformations for the shape a, with
\* rotations and reflections allowed
EqMakeVariants ==
  /\ status = "new"
  /\ cfg.kind = "equivalent"
  /\ expr' = shapeVariants(cfg.a, transformationFunctions(TRUE, TRUE), <<>>)
  /\ status' = "variants"
  /\ UNCHANGED <<cfg, solver, nvars, model, history, ret, instanceIndex, consts, created>>

NextEquivalent == Equivalent \/ EqMakeVariants

SpecEquivalent == InitEquivalent /\ [][NextEquivalent]_vars
(***************************************************************************)
(* Specification of the construction of an ExpressionQuadTree, one node at *)
(* a time.  history holds the point lists of the nodes whose constructors  *)
(* are yet to run, created the points of the leaves made, expr the point   *)
(* list of the node constructed last with those of its children, and nvars *)
(* the number of nodes constructed.                                        *)
(***************************************************************************)
QbBox == {<<y, x>> : y \in 0..2, x \in 0..2}

QuadBuildConfigs ==
  {[kind |-> "quadbuild", points |-> PointList(s)] : s \in SubsetsUpTo(QbBox, MaxCells)}

InitQuadBuild ==
  /\ cfg \in QuadBuildConfigs
  /\ solver = <<>>
  /\ nvars = 0
  /\ status = "new"
  /\ model = <<>>
  /\ expr = <<>>
  /\ history = <<>>
  /\ ret = FALSE
  /\ created = <<>>
  /\ instanceIndex = [sg |-> 0, rc |-> 0, pc |-> 0, sc |-> 0]
  /\ consts = <<>>

\* new ExpressionQuadTree(context, points): the call of the constructor,
\* which throws for an empty list
QbNew ==
  /\ status = "new"
  /\ cfg.kind = "quadbuild"
  /\ IF Len(cfg.points) = 0
     THEN /\ status' = "error"
          /\ history' = history
     ELSE /\ status' = "building"
          /\ history' = <<cfg.points>>
  /\ UNCHANGED <<cfg, solver, nvars, model, expr, ret, instanceIndex, consts, created>>

\* the body of the constructor for the next node: a leaf for one point,
\* otherwise the constructors of the non-empty quadrants are called
QbConstructNode ==
  /\ status = "building"
  /\ cfg.kind = "quadbuild"
  /\ history # <<>>
  /\ LET points == Head(history)
         children == IF Len(points) = 1 THEN <<>> ELSE quads(points)
         pending == children \o Tail(history)
     IN /\ expr' = <<points, children>>
        /\ created' = IF Len(points) = 1 THEN Append(created, points[1]) ELSE created
        /\ history' = pending
        /\ status' = IF pending = <<>> THEN "built" ELSE "building"
  /\ nvars' = nvars + 1
  /\ UNCHANGED <<cfg, solver, model, ret, instanceIndex, consts>>

NextQuadBuild == QbNew \/ QbConstructNode

\* the constructor is sequential code: a pending call runs
SpecQuadBuild == InitQuadBuild /\ [][NextQuadBuild]_vars /\ WF_vars(NextQuadBuild)
(***************************************************************************)
(* Reading a model back: model.eval(expression).                           *)
(***************************************************************************)
ModelEval(e) == Eval(e, model)[2]

RcSat == status = "sat" /\ cfg.kind = "region"
RcParent(p) == ModelEval(parentGrid(0, cfg.lattice, p))
RcSubtreeSize(p) == ModelEval(subtreeSizeGrid(0, cfg.lattice, p))
RcRegionId(p) == ModelEval(regionIdGrid(0, cfg.lattice, p))
RcRegionSize(p) == ModelEval(regionSizeGrid(0, cfg.lattice, p))
LatticePoints == {cfg.lattice[i] : i \in 1..Len(cfg.lattice)}

\* C1: with complete = true and the default size bounds, in every model the
\* regionSize of each cell equals the number of cells with the cell's regionId.
C1_RegionSizeIsCellCount ==
  (RcSat /\ cfg.complete /\ cfg.minRegionSize = 0 /\ cfg.maxRegionSize = 0) =>
    \A p \in LatticePoints :
      RcRegionSize(p) = Cardinality({q \in LatticePoints : RcRegionId(q) = RcRegionId(p)})

\* a model with a region of at least three cells, seen from a non-root cell
C1_Witness ==
  /\ RcSat /\ cfg.complete /\ cfg.minRegionSize = 0 /\ cfg.maxRegionSize = 0
  /\ \E p \in LatticePoints : RcParent(p) # R /\ RcRegionSize(p) >= 3

\* the cell named by the parent value of p (p itself for X and R)
RcParentPoint(p) ==
  IF RcParent(p) \in {X, R} THEN p
  ELSE translate(p, edgeSharingDirections[RcParent(p) - 1].vector)

\* the walk from p along parent values: the cells visited, ending at the first
\* root, or at <<-1, -1>> when the walk leaves the lattice, meets an X cell or
\* is longer than the lattice (and so revisits a cell)
RECURSIVE RcWalk(_, _)
RcWalk(p, fuel) ==
  IF ~(p \in LatticePoints) \/ fuel = 0 THEN << <<-1, -1>> >>
  ELSE IF RcParent(p) = X THEN << <<-1, -1>> >>
  ELSE IF RcParent(p) = R THEN <<p>>
  ELSE <<p>> \o RcWalk(RcParentPoint(p), fuel - 1)

\* C2: in every model the walk from any cell with parent # X along the parent
\* values stays on the lattice, revisits no cell, ends at a root, and every
\* cell on it has the root's lattice index as regionId.
C2_ParentWalkReachesRoot ==
  RcSat =>
    \A p \in LatticePoints : RcParent(p) # X =>
      LET w == RcWalk(p, Len(cfg.lattice))
          root == w[Len(w)]
      IN /\ root \in LatticePoints
         /\ RcParent(root) = R
         /\ \A i, j \in 1..Len(w) : i # j => w[i] # w[j]
         /\ \A i \in 1..Len(w) : RcRegionId(w[i]) = pointToIndex(cfg.lattice, root)

\* a model in which some walk passes through two parent links
C2_Witness ==
  /\ RcSat
  /\ \E p \in LatticePoints :
       /\ RcParent(p) \notin {X, R}
       /\ Len(RcWalk(p, Len(cfg.lattice))) >= 3
       /\ RcParent(RcWalk(p, Len(cfg.lattice))[3]) = R

(***************************************************************************)
(* Reading a model of the path constraints.                                *)
(***************************************************************************)
PcSat == status = "sat" /\ cfg.kind = "path"
PcSymbol(p) == ModelEval(sgGrid(0, cfg.lattice, p))
PcInstance(p) == ModelEval(pathInstanceGrid(Len(cfg.lattice), cfg.lattice, p))
PcOrder(p) == ModelEval(pathOrderGrid(Len(cfg.lattice), cfg.lattice, p))

PcIsTerminal(p) ==
  /\ cfg.includeTerminals
  /\ PcSymbol(p) > maxPathSegmentSymbolIndex
  /\ PcSymbol(p) <= maxPathTerminalSymbolIndex(TRUE)

\* the positions of the directions in which the symbol at p has an arm
PcArms(p) ==
  IF PcSymbol(p) <= maxPathSegmentSymbolIndex
  THEN {directionPairs[PcSymbol(p) + 1][1], directionPairs[PcSymbol(p) + 1][2]}
  ELSE IF PcIsTerminal(p) THEN {PcSymbol(p) - maxPathSegmentSymbolIndex}
  ELSE {}

PcPathCells == {p \in LatticePoints : PcArms(p) # {}}

\* p and q are neighbours and each has an arm towards the other
PcLinked(p, q) ==
  /\ \E k \in PcArms(p) : translate(p, edgeSharingDirections[k].vector) = q
  /\ \E k \in PcArms(q) : translate(q, edgeSharingDirections[k].vector) = p

RECURSIVE PcReach(_, _)
PcReach(cells, fuel) ==
  IF fuel = 0 THEN cells
  ELSE PcReach(cells \cup {q \in PcPathCells : \E p \in cells : PcLinked(p, q)}, fuel - 1)

\* the connected components of the path cells
PcComponents == {PcReach({p}, Len(cfg.lattice)) : p \in PcPathCells}

\* one cell of the component per order 0 .. n - 1, cells of consecutive
\* order linked
PcConsecutive(comp) ==
  /\ \A k \in 0..(Cardinality(comp) - 1) :
       Cardinality({p \in comp : PcOrder(p) = k}) = 1
  /\ \A p, q \in comp : PcOrder(q) = PcOrder(p) + 1 => PcLinked(p, q)

\* C4: with allowLoops = false, in every model each component of path cells
\* has exactly two terminals, its cells carry the orders 0 .. n - 1 once each,
\* cells of consecutive order are linked, and the cells of order 0 and n - 1
\* are the terminals; so no component is a closed loop.
C4_NoLoopsTwoTerminals ==
  (PcSat /\ ~cfg.allowLoops) =>
    \A comp \in PcComponents :
      /\ Cardinality({p \in comp : PcIsTerminal(p)}) = 2
      /\ PcConsecutive(comp)
      /\ \A p \in comp :
           PcOrder(p) \in {0, Cardinality(comp) - 1} <=> PcIsTerminal(p)

\* a model with a path of three cells around a segment, and one with two paths
C4_Witness ==
  /\ PcSat /\ ~cfg.allowLoops
  /\ \E comp \in PcComponents :
       /\ Cardinality(comp) = 3
       /\ \E p \in comp : ~PcIsTerminal(p) /\ PcOrder(p) = 1

\* C5: with allowLoops = true, in every model each component without a
\* terminal is a closed loop: every cell has two linked neighbours, the cells
\* carry the orders 0 .. n - 1 once each, cells of consecutive order are
\* linked, and the cell of order n - 1 is linked to the cell of order 0.
C5_LoopOrdersAreCyclic ==
  (PcSat /\ cfg.allowLoops) =>
    \A comp \in PcComponents :
      (\A p \in comp : ~PcIsTerminal(p)) =>
        /\ \A p \in comp : Cardinality({q \in comp : PcLinked(p, q)}) = 2
        /\ PcConsecutive(comp)
        /\ \A p, q \in comp :
             (PcOrder(p) = Cardinality(comp) - 1 /\ PcOrder(q) = 0) => PcLinked(p, q)

\* a model that contains a loop
C5_Witness ==
  /\ PcSat /\ cfg.allowLoops
  /\ \E comp \in PcComponents :
       /\ \A p \in comp : ~PcIsTerminal(p)
       /\ \E p \in comp : PcOrder(p) = Cardinality(comp) - 1

\* C6: in every model each component has exactly one cell of order 0, all its
\* cells carry that cell's lattice index as pathInstance, two components never
\* share a pathInstance, and numPaths evaluates to the number of components.
C6_OneInstancePerComponent ==
  PcSat =>
    /\ \A comp \in PcComponents :
         \E z \in comp :
           /\ PcOrder(z) = 0
           /\ \A p \in comp :
                /\ PcOrder(p) = 0 => p = z
                /\ PcInstance(p) = pointToIndex(cfg.lattice, z)
    /\ \A c1, c2 \in PcComponents :
         c1 # c2 => \A p \in c1, q \in c2 : PcInstance(p) # PcInstance(q)
    /\ ModelEval(expr) = Cardinality(PcComponents)

\* a model with two paths
C6_Witness ==
  /\ PcSat
  /\ Cardinality(PcComponents) = 2
  /\ ModelEval(expr) = 2

(***************************************************************************)
(* Reading a model of the shape constraints.                               *)
(***************************************************************************)
ScSat == status = "sat" /\ cfg.kind = "shape"
ScType(p) == ModelEval(shapeTypeGrid(0, cfg.lattice, p))
ScInstance(p) == ModelEval(shapeInstanceGrid(0, cfg.lattice, p))
ScVariants == makeVariants(cfg.shapes, cfg.allowRotations, cfg.allowReflections)
ScInstanceCells(i) == {p \in LatticePoints : ScInstance(p) = i}
ScInstanceIds == {ScInstance(p) : p \in LatticePoints} \ {-1}

\* the variant, placed with its first offset at anchor, covers exactly cells
ScCovers(variant, anchor, cells) ==
  cells = {translate(anchor, variant[j]) : j \in 1..Len(variant)}

\* C3: in every model, the cells of each instance id i that occurs all have
\* one shape type t, and they are exactly the cells that one variant of
\* shape t covers when anchored at the lattice point with index i; a cell
\* without an instance has no shape type.
C3_InstanceIsOneVariant ==
  ScSat =>
    /\ LET variants == ScVariants
       IN \A i \in ScInstanceIds :
            \E t \in 1..Len(cfg.shapes) :
              /\ \A p \in ScInstanceCells(i) : ScType(p) = t - 1
              /\ \E v \in 1..Len(variants[t]) :
                   ScCovers(variants[t][v], cfg.lattice[i + 1], ScInstanceCells(i))
    /\ \A p \in LatticePoints : ScInstance(p) = -1 <=> ScType(p) = -1

\* a model with two placements, one of them of a variant that is not the
\* shape as given
C3_Witness ==
  /\ ScSat
  /\ Cardinality(ScInstanceIds) = 2
  /\ \E i \in ScInstanceIds :
       \A t \in 1..Len(cfg.shapes) :
         ~ScCovers(offsetVectors(canonicalize(Shape(cfg.shapes[t]))), cfg.lattice[i + 1], ScInstanceCells(i))

\* some variant of the shape with list position t fits inside the lattice
ScFits(t) ==
  LET variants == ScVariants[t]
  IN \E v \in 1..Len(variants) : \E anchor \in LatticePoints :
       \A j \in 1..Len(variants[v]) :
         translate(anchor, variants[v][j]) \in LatticePoints

ScSquare == << <<0, 0>>, <<0, 1>>, <<1, 0>>, <<1, 1>> >>

\* C7: with allowCopies = false, every model has exactly one instance for
\* each position of the shapes list, and there is no model when a listed
\* shape has no variant that fits; the 2x2 square has a model on the 2x2
\* lattice, always anchored at (0, 0), and none on the 2x1 lattice.
C7_OnePlacementPerEntry ==
  (cfg.kind = "shape" /\ status \in {"sat", "unsat"} /\ ~cfg.allowCopies) =>
    /\ status = "sat" =>
         \A t \in 1..Len(cfg.shapes) :
           Cardinality({i \in ScInstanceIds :
                          \E p \in ScInstanceCells(i) : ScType(p) = t - 1}) = 1
    /\ (\E t \in 1..Len(cfg.shapes) : ~ScFits(t)) => status = "unsat"
    /\ cfg.shapes = <<ScSquare>> =>
         /\ LatticePoints = {<<0, 0>>, <<1, 0>>} => status = "unsat"
         /\ LatticePoints = {<<0, 0>>, <<0, 1>>, <<1, 0>>, <<1, 1>>} =>
              /\ status = "sat"
              /\ \A p \in LatticePoints : ScInstance(p) = 0

\* a model in which a definition listed twice is placed twice
C7_Witness ==
  /\ ScSat /\ ~cfg.allowCopies
  /\ Len(cfg.shapes) = 2 /\ cfg.shapes[1] = cfg.shapes[2]
  /\ Cardinality(ScInstanceIds) = 2

\* the number of cells whose shape type is the list index t - 1
ScTypeCount(t) == Cardinality({p \in LatticePoints : ScType(p) = t - 1})

\* C8 as stated: the number of cells whose shape type is a shape's index is
\* the cell count of the shape times the number of times the definition is
\* listed.
C8_CountTimesMultiplicity ==
  (ScSat /\ ~cfg.allowCopies) =>
    \A t \in 1..Len(cfg.shapes) :
      ScTypeCount(t) =
        Len(cfg.shapes[t]) * Cardinality({u \in 1..Len(cfg.shapes) : cfg.shapes[u] = cfg.shapes[t]})

\* C8 amended: with allowCopies = false, for each list index the number of
\* cells with that shape type is the cell count of the shape at that index;
\* over all the indices at which a definition is listed the cells number the
\* cell count times the number of times it is listed.
C8_CountPerListIndex ==
  (ScSat /\ ~cfg.allowCopies) =>
    \A t \in 1..Len(cfg.shapes) :
      /\ ScTypeCount(t) = Len(cfg.shapes[t])
      /\ Cardinality({p \in LatticePoints :
                        \E u \in 1..Len(cfg.shapes) :
                          cfg.shapes[u] = cfg.shapes[t] /\ ScType(p) = u - 1})
           = Len(cfg.shapes[t]) * Cardinality({u \in 1..Len(cfg.shapes) : cfg.shapes[u] = cfg.shapes[t]})

\* a model for a list that names the same definition twice
C8_Witness ==
  /\ ScSat /\ ~cfg.allowCopies
  /\ Len(cfg.shapes) = 2 /\ cfg.shapes[1] = cfg.shapes[2]
  /\ ScTypeCount(1) = Len(cfg.shapes[1]) /\ ScTypeCount(2) = Len(cfg.shapes[2])

(***************************************************************************)
(* Claims about the sightline helpers.                                     *)
(***************************************************************************)
SlSat == status = "sat" /\ cfg.kind = "sight"

\* the ray c1..cn: the points from start onwards that the lattice contains
RECURSIVE SlRay(_, _, _)
SlRay(lat, p, v) ==
  IF HasPoint(lat, p) THEN <<p>> \o SlRay(lat, translate(p, v), v) ELSE <<>>

SlPoints == SlRay(cfg.lattice, cfg.start, edgeSharingDirections[cfg.direction].vector)

SlSymbol(p) == ModelEval(sgGrid(0, cfg.lattice, p))

\* the accumulated values v0 = initializer, v1, ..., vn in the model
RECURSIVE SlAcc(_, _)
SlAcc(ray, i) ==
  IF i = 0 THEN cfg.initializer
  ELSE ModelEval(accumulate(cfg, Val(SlAcc(ray, i - 1)), sgGrid(0, cfg.lattice, ray[i]), ray[i]))

\* whether stop is true at the i-th cell of the ray in the model
SlStops(ray, i) ==
  ModelEval(stop(cfg, Val(SlAcc(ray, i)), sgGrid(0, cfg.lattice, ray[i]), ray[i]))

\* the fold over the cells before the first stopping cell, or over all cells
SlExpected(ray) ==
  LET stops == {i \in 1..Len(ray) : SlStops(ray, i)}
  IN IF stops = {} THEN SlAcc(ray, Len(ray))
     ELSE SlAcc(ray, (CHOOSE i \in stops : \A j \in stops : i <= j) - 1)

\* the row A, A, B, A read eastwards from (0, 0) by countCells
SlScenario ==
  /\ SlSat
  /\ cfg.api = "countCells"
  /\ cfg.count = "default"
  /\ cfg.lattice = <<<<0, 0>>, <<0, 1>>, <<0, 2>>, <<0, 3>>>>
  /\ cfg.start = <<0, 0>>
  /\ edgeSharingDirections[cfg.direction].name = "E"
  /\ [i \in 1..4 |-> SlSymbol(cfg.lattice[i])] = <<0, 0, 1, 0>>

\* C9: the value of the expression returned by reduceCells / countCells is
\* the accumulation over the cells of the ray before the first cell at which
\* stop is true (that cell and the cells after it contribute nothing), and
\* over the whole ray when stop is true nowhere; countCells over A, A, B, A
\* is 4 with the default stop and 2 when stop is "the symbol is B".
C9_FoldUpToFirstStop ==
  SlSat =>
    /\ ModelEval(expr) = SlExpected(SlPoints)
    /\ (SlScenario /\ cfg.stop = "default") => ModelEval(expr) = 4
    /\ (SlScenario /\ cfg.stop = "isB") => ModelEval(expr) = 2

\* stop is "the symbol is B" on the row A, A, B, A: the result 2 leaves out
\* the stopping cell and the A after it
C9_Witness ==
  /\ SlScenario
  /\ cfg.stop = "isB"
  /\ ModelEval(expr) = 2
(***************************************************************************)
(* Claims about SymbolGrid.solve / isUnique.                               *)
(***************************************************************************)
SgChecked == status \in {"sat", "unsat"} /\ cfg.kind = "path"

\* the grid cells of a model: the values of the SymbolGrid constants
SgCells(m) == [i \in 1..Len(cfg.lattice) |-> m[i]]

\* the grid assignments excluded by the isUnique calls made so far
SgExcluded == {SgCells(history[k]) : k \in 1..Len(history)}

\* the assertions of the SymbolGrid and the PathConstrainer constructors
SgOriginal ==
  SymbolGrid(0, cfg.lattice, 0, symbolSetMaxIndex(cfg))
    \o PathConstrainer(0, Len(cfg.lattice), cfg.lattice, cfg.includeTerminals,
                       cfg.complete, cfg.allowTerminatedPaths, cfg.allowLoops)

\* every model of the constructors' assertions
SgOriginalModels ==
  Models(SgOriginal, nvars, [i \in 1..nvars |-> IntRange(cfg, i)], SearchOrder(cfg, nvars))

\* the assertion "some grid cell is not the one of this grid assignment"
SgExclusion(cells) ==
  Or([i \in 1..Len(cfg.lattice) |-> Neq(Var(i), Val(cells[i]))])

\* C10: after solve and any number of isUnique calls the solver holds the
\* constructors' assertions followed by one assertion per call, in call
\* order, saying that some grid cell differs from the model of that call;
\* the last call returned true exactly when the solver became unsatisfiable,
\* which is when every grid assignment of a solution has been excluded, no
\* matter how many models share it; every model differs in a grid cell from
\* every earlier model and no excluded grid assignment is returned again.
C10_IsUniqueExcludesGrids ==
  (SgChecked /\ history # <<>>) =>
    LET n0 == Len(solver) - Len(history)
        original == SgOriginal
    IN /\ SubSeq(solver, 1, n0) = original
       /\ \A k \in 1..Len(history) :
            solver[n0 + k] = SgExclusion(SgCells(history[k]))
       /\ ret = (status = "unsat")
       /\ \A j \in 1..Len(history), k \in 1..Len(history) :
            j # k => SgCells(history[j]) # SgCells(history[k])
       /\ \A k \in 1..Len(history) :
            \A i \in 1..Len(original) : Holds(original[i], history[k])
       /\ status = "sat" =>
            /\ SgCells(model) \notin SgExcluded
            /\ \A i \in 1..Len(original) : Holds(original[i], model)
       /\ status = "unsat" =>
            {SgCells(m) : m \in SgOriginalModels} = SgExcluded

\* two isUnique calls exclude the two grid assignments of a puzzle that has
\* more than two models (some differ only in the path constants), and the
\* second call returns true
C10_Witness ==
  /\ SgChecked
  /\ status = "unsat"
  /\ Len(history) = 2
  /\ ret = TRUE
  /\ SgCells(history[1]) # SgCells(history[2])
  /\ Cardinality(SgOriginalModels) > 2
(***************************************************************************)
(* Further claims about the RegionConstrainer.                             *)
(***************************************************************************)
\* the size bounds in force: the constructor's defaults for omitted arguments
RcMinSize == IF cfg.minRegionSize # 0 THEN cfg.minRegionSize ELSE 1
RcMaxSize == IF cfg.maxRegionSize # 0 THEN cfg.maxRegionSize ELSE Len(cfg.lattice)

\* lattice points number i and j share an edge
RcAdjacent(i, j) ==
  \E k \in 1..NumDirs :
    translate(cfg.lattice[i], edgeSharingDirections[k].vector) = cfg.lattice[j]

\* the cells of class reachable from seen through edge-sharing steps inside class
RECURSIVE RcGrow(_, _)
RcGrow(seen, class) ==
  LET next == seen \cup {j \in class : \E i \in seen : RcAdjacent(i, j)}
  IN IF next = seen THEN seen ELSE RcGrow(next, class)

\* every partition of the lattice into edge-connected blocks of allowed size
\* with one root chosen per block, as the map from a cell to its root
RcTargets ==
  LET n == Len(cfg.lattice)
  IN {f \in [1..n -> 1..n] :
        \A i \in 1..n :
          LET class == {j \in 1..n : f[j] = f[i]}
          IN /\ f[f[i]] = f[i]
             /\ Cardinality(class) >= RcMinSize
             /\ Cardinality(class) <= RcMaxSize
             /\ RcGrow({f[i]}, class) = class}

\* the maps from a cell to the cell whose index is its regionId, over all the
\* models of the assertions in the solver
RcModelRoots ==
  LET n == Len(cfg.lattice)
      ms == Models(solver, nvars, [i \in 1..nvars |-> IntRange(cfg, i)],
                   SearchOrder(cfg, nvars))
  IN {[i \in 1..n |-> m[2 * n + i] + 1] : m \in ms}

RcBuiltComplete ==
  status = "built" /\ cfg.kind = "region" /\ cfg.complete /\ ~cfg.rectangular

\* C11: with complete = true and rectangular = false, for every partition of
\* the lattice into edge-connected blocks with sizes within the bounds and
\* every choice of one root per block, the assertions have a model in which
\* the regionId of each cell is the lattice index of its block's root.
C11_EveryPartitionHasModel ==
  RcBuiltComplete => RcTargets \subseteq RcModelRoots

\* a lattice of four cells has a model for one block of three cells rooted at
\* its middle cell next to a block of one cell
C11_Witness ==
  /\ RcBuiltComplete
  /\ Len(cfg.lattice) = 4
  /\ \E f \in RcTargets \cap RcModelRoots :
       \E i \in 1..4 :
         /\ Cardinality({j \in 1..4 : f[j] = i}) = 3
         /\ Cardinality({j \in 1..4 : f[j] = i /\ RcAdjacent(i, j)}) = 2
         /\ \E j \in 1..4 : f[j] = j /\ j # i

\* cell p and its neighbours n1 # n2 have one regionId, and c # p is adjacent
\* to both n1 and n2 (all four given as lattice indices)
RcCorner(p, n1, n2, c) ==
  /\ n1 # n2 /\ c # p
  /\ RcAdjacent(p, n1) /\ RcAdjacent(p, n2)
  /\ RcAdjacent(c, n1) /\ RcAdjacent(c, n2)
  /\ RcRegionId(cfg.lattice[n1]) = RcRegionId(cfg.lattice[p])
  /\ RcRegionId(cfg.lattice[n2]) = RcRegionId(cfg.lattice[p])

\* C12 as stated: with rectangular = true, in every model, whenever two
\* distinct neighbours n1, n2 of a cell p have p's regionId, every cell other
\* than p adjacent to both n1 and n2 has that regionId too.
C12_CornerSharesRegionId ==
  (RcSat /\ cfg.rectangular) =>
    \A p, n1, n2, c \in 1..Len(cfg.lattice) :
      RcCorner(p, n1, n2, c) =>
        RcRegionId(cfg.lattice[c]) = RcRegionId(cfg.lattice[p])

\* C12 amended: the same, for every cell p that belongs to a region
\* (regionId other than -1).
C12_CornerSharesRegionIdOfRegion ==
  (RcSat /\ cfg.rectangular) =>
    \A p, n1, n2, c \in 1..Len(cfg.lattice) :
      (RcCorner(p, n1, n2, c) /\ RcRegionId(cfg.lattice[p]) # 0 - 1) =>
        RcRegionId(cfg.lattice[c]) = RcRegionId(cfg.lattice[p])

\* a model with rectangular = true in which three cells of a 2 x 2 square
\* are in one region, and so is the fourth
C12_Witness ==
  /\ RcSat /\ cfg.rectangular
  /\ \E p, n1, n2, c \in 1..Len(cfg.lattice) :
       /\ RcCorner(p, n1, n2, c)
       /\ RcRegionId(cfg.lattice[p]) # 0 - 1
       /\ RcRegionId(cfg.lattice[c]) = RcRegionId(cfg.lattice[p])
(***************************************************************************)
(* Further claims about the PathConstrainer.                               *)
(***************************************************************************)
\* C13: with allowTerminatedPaths = false, in every model no cell holds a
\* terminal symbol and every component of path cells is a closed loop: each
\* of its cells has two arms and is linked to two cells of the component.
C13_NoTerminalsOnlyLoops ==
  (PcSat /\ ~cfg.allowTerminatedPaths) =>
    /\ \A p \in LatticePoints : ~PcIsTerminal(p)
    /\ \A comp \in PcComponents : \A p \in comp :
         /\ Cardinality(PcArms(p)) = 2
         /\ Cardinality({q \in comp : PcLinked(p, q)}) = 2

\* a model of a symbol set with terminals, terminated paths forbidden, that
\* contains a loop
C13_Witness ==
  /\ PcSat /\ ~cfg.allowTerminatedPaths /\ cfg.includeTerminals
  /\ \E comp \in PcComponents : Cardinality(comp) = 4
(***************************************************************************)
(* Claims about the names of the solver variables.                         *)
(***************************************************************************)
\* C14: after any sequence of component constructions in one context, two
\* constants requested by different component instances never have the same
\* name.
C14_NamesDifferAcrossInstances ==
  \A i, j \in 1..Len(created) :
    created[i].owner # created[j].owner => created[i].name # created[j].name
(***************************************************************************)
(* Claims about the lattices.                                              *)
(***************************************************************************)
LtBuilt == status = "built" /\ cfg.kind = "lattice"

\* C15: for every input list of points, the points of the constructed
\* lattice are in increasing (y, x) order without duplicates,
\* pointToIndex(points[i]) = i for every i, and pointToIndex is undefined
\* for every point that is not in the lattice.
C15_PointsSortedUniqueIndexed ==
  LtBuilt =>
    /\ \A i \in 1..(Len(expr) - 1) : PointLess(expr[i], expr[i + 1])
    /\ \A i \in 1..Len(expr) : pointToIndexOrUndefined(expr, expr[i]) = i - 1
    /\ \A p \in PointChoices :
         (\A i \in 1..Len(expr) : expr[i] # p) =>
           pointToIndexOrUndefined(expr, p) = "undefined"
(***************************************************************************)
(* Claims about the transformations and the variants of a shape.           *)
(***************************************************************************)
\* C16: on every type of lattice and for every combination of the two flags
\* the list of transformation functions contains a function that maps every
\* vector to itself, and the untransformed shape is among the variants.
C16_IdentityAmongTransformations ==
  (status = "built" /\ cfg.kind = "variants") =>
    LET fs == latticeTransformationFunctions(cfg.type, cfg.allowRotations,
                                             cfg.allowReflections)
    IN /\ \E k \in 1..Len(fs) :
            \A v \in LatticeVectors(cfg.type) : applyTransformation(fs[k], v) = v
       /\ \E j \in 1..Len(expr) : equivalent(expr[j], canonicalize(Shape(cfg.offsets)))
(***************************************************************************)
(* Claims about Shape.canonicalize.                                        *)
(***************************************************************************)
CnBuilt == status = "built" /\ cfg.kind = "canonical"

\* the shape moved by the vector t
CnMoved(shape, t) == [i \in 1..Len(shape) |-> <<translate(shape[i][1], t), shape[i][2]>>]

\* the number of times the offset tuple o occurs in the shape
CnCount(shape, o) == Cardinality({i \in 1..Len(shape) : shape[i] = o})

\* C17: the canonicalized shape lists its offsets in sorted order, its first
\* offset is (0, 0), it is the given shape moved as a whole with every
\* payload on its own offset, moving the given shape does not change it, and
\* canonicalizing it again gives an equivalent shape.
C17_CanonicalizeSortsAnchorsIdempotent ==
  CnBuilt =>
    /\ \A i \in 1..(Len(expr) - 1) : ~VectorLess(expr[i + 1][1], expr[i][1])
    /\ expr[1][1] = <<0, 0>>
    /\ \E t \in {negate(cfg.offsets[i][1]) : i \in 1..Len(cfg.offsets)} :
         \A o \in {expr[i] : i \in 1..Len(expr)} \cup
                  {CnMoved(cfg.offsets, t)[i] : i \in 1..Len(cfg.offsets)} :
           CnCount(expr, o) = CnCount(CnMoved(cfg.offsets, t), o)
    /\ \A t \in {<<dy, dx>> : dy \in (0 - 1)..1, dx \in (0 - 1)..1} :
         equivalent(canonicalize(CnMoved(cfg.offsets, t)), expr)
    /\ equivalent(canonicalize(expr), expr)

\* a shape of three offsets given out of order, not anchored at the origin,
\* with a payload on an offset that changes place
C17_Witness ==
  /\ CnBuilt
  /\ Len(cfg.offsets) = 3
  /\ VectorLess(cfg.offsets[3][1], cfg.offsets[1][1])
  /\ cfg.offsets[3][1] # <<0, 0>>
  /\ cfg.offsets[1][2] = "a"
  /\ expr[3][2] = "a"
  /\ expr[1][2] = "undefined"
(***************************************************************************)
(* Claims about SymbolSet.                                                 *)
(***************************************************************************)
SsBuilt == status = "built" /\ cfg.kind = "symbols"

SsIndices(map, n) == {map[i][1] : i \in 1..n}

\* the index an automatic assignment must give after the first n symbols
SsExpectedIndex(map, n) ==
  IF n = 0 THEN 0
  ELSE 1 + (CHOOSE k \in SsIndices(map, n) : \A j \in SsIndices(map, n) : j <= k)

\* the constructor after k specifications, against the one after k - 1
SsStepOk(k) ==
  LET before == SymbolSet(SubSeq(cfg.symbols, 1, k - 1))
      after == SymbolSet(SubSeq(cfg.symbols, 1, k))
      spec == cfg.symbols[k]
  IN IF before.error THEN after.error
     ELSE IF Len(spec) = 3 /\ spec[3] \in SsIndices(before.map, k - 1)
     THEN after.error
     ELSE /\ ~after.error
          /\ Len(after.map) = k
          /\ SubSeq(after.map, 1, k - 1) = before.map
          /\ after.map[k][1] = IF Len(spec) = 3 THEN spec[3]
                               ELSE SsExpectedIndex(before.map, k - 1)

\* C18: a specification with an explicit index that is in use makes the
\* constructor raise an error and every other one adds a symbol, leaving
\* the earlier ones alone; an automatic index, of the constructor or of
\* append, is 1 + the greatest index so far (0 in an empty set); all the
\* indices differ; minIndex and maxIndex are the least and the greatest.
C18_IndicesUniqueAutoNextErrorOnClash ==
  (cfg.kind = "symbols" /\ status # "new") =>
    LET n == Len(cfg.symbols)
    IN /\ \A k \in 1..n : SsStepOk(k)
       /\ (status = "error") = SymbolSet(cfg.symbols).error
       /\ SsBuilt =>
            /\ Len(expr) >= n
            /\ SubSeq(expr, 1, n) = SymbolSet(cfg.symbols).map
            /\ \A j \in (n + 1)..Len(expr) : expr[j][1] = SsExpectedIndex(expr, j - 1)
            /\ \A i, j \in 1..Len(expr) : i # j => expr[i][1] # expr[j][1]
            /\ expr # <<>> =>
                 /\ minIndex(expr) \in SsIndices(expr, Len(expr))
                 /\ maxIndex(expr) \in SsIndices(expr, Len(expr))
                 /\ \A i \in 1..Len(expr) :
                      minIndex(expr) <= expr[i][1] /\ expr[i][1] <= maxIndex(expr)

\* a set built from an explicit index 2 followed by an automatic one, then
\* extended by append: the indices are not contiguous
C18_Witness ==
  /\ SsBuilt
  /\ Len(cfg.symbols) = 2
  /\ Len(cfg.symbols[1]) = 3
  /\ cfg.symbols[1][3] = 2
  /\ Len(cfg.symbols[2]) = 1
  /\ Len(expr) = 3
  /\ expr[3][1] = 4

\* a constructor call that repeats an explicit index ends in the error
C18_WitnessError ==
  /\ status = "error"
  /\ cfg.kind = "symbols"
  /\ \E i, j \in 1..Len(cfg.symbols) :
       i < j /\ Len(cfg.symbols[i]) = 3 /\ cfg.symbols[j] = cfg.symbols[i]
(***************************************************************************)
(* Claims about the parent indices of a RegionConstrainer.                 *)
(***************************************************************************)
DrBuilt == status = "built" /\ cfg.kind = "directions"

DrDirs == latticeEdgeSharingDirections(cfg.type)

\* C19: X has index 0 and R index 1, the k directions of the lattice take
\* the indices 2..k+1, each its own, a direction's name has the index of
\* the direction, and a lookup returns the same index each time it is made.
C19_DirectionIndicesFixedInjective ==
  DrBuilt =>
    LET k == Len(DrDirs)
        index(i) == lookupEdgeSharingDirection(expr, DrDirs[i], FALSE)
    IN /\ lookupParentType(expr, "X") = 0
       /\ lookupParentType(expr, "R") = 1
       /\ {index(i) : i \in 1..k} = 2..(k + 1)
       /\ \A i, j \in 1..k : i # j => index(i) # index(j)
       /\ \A i \in 1..k :
            /\ lookupParentType(expr, DrDirs[i].name) = index(i)
            /\ lookupEdgeSharingDirection(expr, DrDirs[i].name, TRUE) = index(i)
       /\ \A a, b \in 1..Len(history) :
            (history[a][1] = history[b][1] /\ history[a][3] = history[b][3])
              => history[a][4] = history[b][4]
       /\ \A a \in 1..Len(history) :
            history[a][4] = IF history[a][1] = "direction" THEN index(history[a][3])
                            ELSE history[a][3] - 1
       /\ cfg.type = "rectangular" =>
            /\ expr.parentTypes = parentTypes
            /\ \A i \in 1..k :
                 /\ index(i) = edgeSharingDirectionToIndex(DrDirs[i])
                 /\ index(i) = parentTypeToIndex(DrDirs[i].name)

\* the last direction of a hexagonal lattice looked up twice, as a Direction
\* and by its name
C19_Witness ==
  /\ DrBuilt
  /\ cfg.type = "flatTopped"
  /\ Len(history) = 2
  /\ history[1] = <<"direction", FALSE, 6, 7>>
  /\ history[2] = <<"direction", TRUE, 6, 7>>
(***************************************************************************)
(* Claims about the cells of a RegionConstrainer that is not complete.     *)
(***************************************************************************)
RcSatIncomplete == RcSat /\ ~cfg.complete

\* C20: with complete = false, in every model and for every cell, the
\* regionId is -1 exactly when the parent is X and exactly when the
\* regionSize is -1; the regionId is the cell's own lattice index exactly
\* when the parent is R; the regionSize is the subtreeSize exactly when the
\* parent is R.
C20_UnrootedAndRootCellsIff ==
  RcSatIncomplete =>
    \A p \in LatticePoints :
      /\ (RcRegionId(p) = -1) = (RcParent(p) = X)
      /\ (RcParent(p) = X) = (RcRegionSize(p) = -1)
      /\ (RcRegionId(p) = pointToIndex(cfg.lattice, p)) = (RcParent(p) = R)
      /\ (RcRegionSize(p) = RcSubtreeSize(p)) = (RcParent(p) = R)

\* a model with a cell outside every region, a root and a cell whose parent
\* is the root
C20_Witness ==
  /\ RcSatIncomplete
  /\ \E p, q, r \in LatticePoints :
       /\ RcParent(p) = X
       /\ RcParent(q) = R
       /\ RcParent(r) \notin {X, R}
       /\ RcParentPoint(r) = q
(***************************************************************************)
(* Claims about the agreement of the arms of neighbouring path cells.      *)
(***************************************************************************)
\* the cells with an arm towards p
PcEntering(p) ==
  {q \in LatticePoints :
     \E k \in PcArms(q) : translate(q, edgeSharingDirections[k].vector) = p}

\* C21: in every model, a cell with an arm towards direction d has a
\* neighbour on the lattice in direction d whose symbol has an arm towards
\* the opposite direction; so no arm points off the lattice, and no path
\* cell is entered by more arms than it has.
C21_ArmsAgree ==
  PcSat =>
    /\ \A p \in LatticePoints : \A k \in PcArms(p) :
         LET d == edgeSharingDirections[k]
             np == translate(p, d.vector)
         IN /\ np \in LatticePoints
            /\ DirPos(negate(d.vector)) \in PcArms(np)
    /\ \A p \in PcPathCells : Cardinality(PcEntering(p)) <= Cardinality(PcArms(p))

\* a model with a segment on the border of the lattice between two path
\* cells, and a cell that is not on a path
C21_Witness ==
  /\ PcSat
  /\ \E p \in PcPathCells :
       /\ Cardinality(PcArms(p)) = 2
       /\ Cardinality(PcEntering(p)) = 2
       /\ \E k \in 1..NumDirs :
            ~(translate(p, edgeSharingDirections[k].vector) \in LatticePoints)
  /\ \E q \in LatticePoints : PcArms(q) = {}
(***************************************************************************)
(* Claims about the end of a sightline.                                    *)
(***************************************************************************)
SlBuilt == status \in {"built", "sat"} /\ cfg.kind = "sight"

\* the k-th point of the line from the start, k = 0 for the start
SlLinePoint(k) ==
  LET v == edgeSharingDirections[cfg.direction].vector
  IN <<cfg.start[1] + k * v[1], cfg.start[2] + k * v[2]>>

\* the number of steps to the first point of the line that is not in the grid
SlFirstMissing ==
  CHOOSE k \in 0..Len(cfg.lattice) :
    /\ ~HasPoint(cfg.lattice, SlLinePoint(k))
    /\ \A j \in 0..(k - 1) : HasPoint(cfg.lattice, SlLinePoint(j))

\* C22: accumulate and stop are called once for each of the points start,
\* start + d, start + 2d, ... before the first point that is not in the
\* grid and for no other point, also when the grid has points beyond it;
\* the result reads the cells of those points only, and is the initializer
\* (0 for countCells) when the start is not in the grid.
C22_RayEndsAtFirstMissingPoint ==
  SlBuilt =>
    LET initializer == Val(cfg.initializer)
        terms == walkTerms(cfg, cfg.start, initializer)
        n == SlFirstMissing
        acc(i) == IF i = 0 THEN initializer ELSE terms[i][1]
    IN /\ Len(terms) = n
       /\ \A i \in 1..n :
            LET p == SlLinePoint(i - 1)
                cell == sgGrid(0, cfg.lattice, p)
            IN /\ terms[i][1] = accumulate(cfg, acc(i - 1), cell, p)
               /\ terms[i][2] = stop(cfg, terms[i][1], cell, p)
       /\ Mentions(expr) \subseteq
            {pointToIndex(cfg.lattice, SlLinePoint(i - 1)) + 1 : i \in 1..n}
              \cup (IF HasPoint(cfg.lattice, cfg.start)
                    THEN {pointToIndex(cfg.lattice, cfg.start) + 1} ELSE {})
       /\ n = 0 => expr = initializer
       /\ (n = 0 /\ cfg.api = "countCells") => expr = Val(0)
       /\ status = "sat" => ModelEval(expr) = SlExpected(SlPoints)

\* a sightline over the row (0,0), (0,1), (0,3) eastwards from (0,0): it
\* ends at the hole (0,2) although (0,3) is in the grid
C22_Witness ==
  /\ SlBuilt
  /\ cfg.lattice = << <<0, 0>>, <<0, 1>>, <<0, 3>> >>
  /\ cfg.start = <<0, 0>>
  /\ edgeSharingDirections[cfg.direction].name = "E"
  /\ cfg.api = "reduceCells"
  /\ cfg.accumulate = "addIndex"
  /\ Mentions(expr) = {1, 2}

\* a sightline whose start is not in the grid is the initializer
C22_WitnessOutside ==
  /\ SlBuilt
  /\ ~HasPoint(cfg.lattice, cfg.start)
  /\ cfg.initializer = 1
  /\ expr = Val(1)
(***************************************************************************)
(* Claims about the calls made on an ExpressionQuadTree.                   *)
(***************************************************************************)
QtBuilt == status = "built" /\ cfg.kind = "quadtree"

QtPoints == {cfg.points[i] : i \in 1..Len(cfg.points)}

\* the z3 expression that a returned object stands for
RECURSIVE QtExpression(_)
QtExpression(o) ==
  CASE o[1] = "func" -> QtExprFunc(cfg.points, o[2], o[3][1])
    [] o[1] = "and" -> And([i \in 1..Len(o[5]) |-> QtExpression(o[5][i])] \o <<>>)
    [] o[1] = "conj" -> And([i \in 1..Len(o[2]) |-> QtExpression(o[2][i])] \o <<>>)

\* the values of the cells of the points: every cell holds one of the keys
QtAssignments == [1..Len(cfg.points) -> QtKeys]

\* C23: the expression returned by getOtherPointsExpr(key, E) is true in
\* exactly the assignments in which the expression of the key holds at
\* every point of the tree that is not in E, whatever the earlier calls
\* cached; undefined is returned only by a tree of one point that is in E.
C23_OtherPointsIsPlainConjunction ==
  (QtBuilt /\ ret # <<>> /\ ret[1] = "getOtherPointsExpr") =>
    LET key == ret[2]
        others == QtPoints \ ret[3]
    IN /\ expr[1] # "error"
       /\ (expr[1] = "undefined") = (Len(cfg.points) = 1 /\ cfg.points[1] \in ret[3])
       /\ expr[1] # "undefined" =>
            \A m \in QtAssignments :
              Eval(QtExpression(expr), m) =
                Known(\A q \in others : m[pointToIndex(cfg.points, q) + 1] = key)

\* a call that excludes a point of a tree of three points and gets a
\* conjunction built over the cached conjunction of a whole quadrant while
\* the other key has cached expressions of its own
C23_Witness ==
  /\ QtBuilt
  /\ ret # <<>>
  /\ ret[1] = "getOtherPointsExpr"
  /\ Len(cfg.points) = 3
  /\ ret[3] \cap QtPoints # {}
  /\ ret[3] \ QtPoints # {}
  /\ expr[1] = "conj"
  /\ \E i \in 1..Len(expr[2]) : expr[2][i][1] = "and"
  /\ \E o \in created : o[2] # ret[2]

\* the objects cached or made by the tree that an expression contains
RECURSIVE QtObjects(_)
QtObjects(v) ==
  IF v[1] \in {"undefined", "error"} THEN {}
  ELSE IF v[1] = "conj" THEN UNION {QtObjects(v[2][i]) : i \in 1..Len(v[2])}
  ELSE {v}

\* the objects in the value returned by the last call
QtReturned ==
  IF ret = <<>> THEN {}
  ELSE IF ret[1] = "getExprs" THEN UNION {QtObjects(expr[i]) : i \in 1..Len(expr)}
  ELSE QtObjects(expr)

\* C24: over any sequence of calls the expression function of a key is
\* called at most once for each point and the conjunction over a whole
\* node is built at most once for each key and node; every object made is
\* the one cached at its node, a cached conjunction is made of the cached
\* expressions of its leaves, and every call returns cached objects.
C24_ExpressionsMadeOnce ==
  QtBuilt =>
    /\ \A o \in created : o[4] = 1
    /\ history = {<<o[3], o[2], o>> : o \in created}
    /\ \A o \in created : o[1] = "and" =>
         /\ Len(o[5]) = Len(o[3])
         /\ {o[5][i] : i \in 1..Len(o[5])} = {<<"func", o[2], <<p>>, 1>> : p \in {o[3][j] : j \in 1..Len(o[3])}}
         /\ {o[5][i] : i \in 1..Len(o[5])} \subseteq created
    /\ QtReturned \subseteq created
    /\ (ret # <<>> /\ ret[1] = "getExprs") =>
         /\ Len(expr) = Len(cfg.points)
         /\ QtReturned = {<<"func", ret[2], <<p>>, 1>> : p \in QtPoints}

\* getPointExpr returns the expression of a leaf that an earlier call made
\* for the conjunction over a whole node
C24_Witness ==
  /\ QtBuilt
  /\ ret # <<>>
  /\ ret[1] = "getPointExpr"
  /\ expr[1] = "func"
  /\ \E o \in created : o[1] = "and" /\ \E i \in 1..Len(o[5]) : o[5][i] = expr
  /\ \E o \in created : o[2] # ret[2]
(***************************************************************************)
(* Claims about Shape.equivalent.                                          *)
(***************************************************************************)
\* C25: equivalent is true exactly for two shapes with the same number of
\* offsets, the same vector and the same payload at each position (the same
\* constant for symbolic payloads, undefined only with undefined); and every
\* transformed and canonicalized shape is among the variants kept.
C25_EquivalentComparesPayloads ==
  /\ (status = "compared" /\ cfg.kind = "equivalent") =>
       ret = (/\ Len(cfg.a) = Len(cfg.b)
              /\ \A i \in 1..Len(cfg.a) :
                   cfg.a[i][1] = cfg.b[i][1] /\ cfg.a[i][2] = cfg.b[i][2])
  /\ (status = "variants" /\ cfg.kind = "equivalent") =>
       LET fs == transformationFunctions(TRUE, TRUE)
       IN \A k \in 1..Len(fs) :
            \E j \in 1..Len(expr) : expr[j] = canonicalize(transform(cfg.a, fs[k]))
(***************************************************************************)
(* Claims about the HexagonalLattice constructor.                          *)
(***************************************************************************)
\* C26: constructing a hexagonal lattice raises the error exactly when some
\* given point has an odd y + x, whatever the signs of the coordinates.
C26_OddSumRaises ==
  (cfg.kind = "lattice" /\ cfg.type = "hexagonal" /\ status # "new") =>
    ((status = "error") <=>
       (\E i \in 1..Len(cfg.points) : (cfg.points[i][1] + cfg.points[i][2]) % 2 = 1))
(***************************************************************************)
(* Claims about the transformation functions of the lattices.              *)
(***************************************************************************)
\* h is the composition of f after g on the vectors of the lattice type
IsComposition(h, f, g, type) ==
  \A v \in LatticeVectors(type) :
    applyTransformation(h, v) = applyTransformation(f, applyTransformation(g, v))

ClosedUnderComposition(fs, type) ==
  \A i \in 1..Len(fs) : \A j \in 1..Len(fs) :
    \E k \in 1..Len(fs) : IsComposition(fs[k], fs[i], fs[j], type)

TfReturned == cfg.kind = "variants" /\ status = "functions"

\* C27 as stated: for every lattice type and every flag combination the
\* functions returned are closed under composition.
C27_ClosedUnderComposition == TfReturned => ClosedUnderComposition(expr, cfg.type)

\* the function f leaves every vector of the lattice type in place
IsIdentity(f, type) == \A v \in LatticeVectors(type) : applyTransformation(f, v) = v

\* C27 amended: the functions returned are closed under composition when
\* rotations are allowed or reflections are not; with reflections allowed and
\* rotations not, two different returned reflections compose to a function
\* that is not returned.
C27_ClosedUnlessReflectionsOnly ==
  TfReturned =>
    IF cfg.allowRotations \/ ~cfg.allowReflections
    THEN ClosedUnderComposition(expr, cfg.type)
    ELSE \A i \in 1..Len(expr) : \A j \in 1..Len(expr) :
           (i # j /\ ~IsIdentity(expr[i], cfg.type) /\ ~IsIdentity(expr[j], cfg.type))
             => ~\E k \in 1..Len(expr) : IsComposition(expr[k], expr[i], expr[j], cfg.type)

C27_Witness ==
  /\ TfReturned
  /\ cfg.type = "flatTopped"
  /\ cfg.allowRotations
  /\ cfg.allowReflections
  /\ Len(expr) = 12
  /\ \E k \in 2..12 : IsComposition(expr[k], expr[2], expr[7], cfg.type)
(***************************************************************************)
(* Claims about the rectangular mode of the RegionConstrainer.             *)
(***************************************************************************)
\* the lattice indices in class are the points of an axis-aligned rectangle
RcIsRectangle(class) ==
  LET ys == {cfg.lattice[i][1] : i \in class}
      xs == {cfg.lattice[i][2] : i \in class}
  IN \A y \in ys : \A x \in xs :
       /\ \E i \in class : cfg.lattice[i] = <<y, x>>
       /\ \A y2 \in ys : \A z \in y..y2 : z \in ys
       /\ \A x2 \in xs : \A z \in x..x2 : z \in xs

\* the partitions of RcTargets all of whose blocks are rectangles
RcRectangleTargets ==
  {f \in RcTargets : \A i \in 1..Len(cfg.lattice) :
                       RcIsRectangle({j \in 1..Len(cfg.lattice) : f[j] = f[i]})}

\* C28: with rectangular = true, for every partition of the lattice into
\* axis-aligned rectangles with sizes within the bounds and every choice of
\* one root per rectangle, the assertions have a model in which the regionId
\* of each cell is the lattice index of its rectangle's root.
C28_EveryRectanglePartitionHasModel ==
  (status = "built" /\ cfg.kind = "region" /\ cfg.rectangular) =>
    RcRectangleTargets \subseteq RcModelRoots
(***************************************************************************)
(* Claims about the construction of the ExpressionQuadTree.                *)
(***************************************************************************)
\* the number of lists in qs that hold the point p
QbHolders(qs, p) ==
  Cardinality({k \in 1..Len(qs) : \E i \in 1..Len(qs[k]) : qs[k][i] = p})

\* the node constructed last is a leaf, or its one to four children each
\* hold fewer points than it and each of its points is in exactly one child
QbNodeSplits ==
  (cfg.kind = "quadbuild" /\ expr # <<>> /\ Len(expr[1]) > 1) =>
    /\ Len(expr[2]) \in 1..4
    /\ \A k \in 1..Len(expr[2]) :
         /\ Len(expr[2][k]) < Len(expr[1])
         /\ \A i \in 1..Len(expr[2][k]) : QbHolders(<<expr[1]>>, expr[2][k][i]) = 1
    /\ \A i \in 1..Len(expr[1]) : QbHolders(expr[2], expr[1][i]) = 1

\* in the finished tree every point is the point of exactly one leaf
QbLeavesArePoints ==
  (cfg.kind = "quadbuild" /\ status = "built") =>
    /\ Len(created) = Len(cfg.points)
    /\ \A i \in 1..Len(cfg.points) :
         Cardinality({k \in 1..Len(created) : created[k] = cfg.points[i]}) = 1

\* the constructor throws exactly for the empty list
QbErrorIffEmpty ==
  (cfg.kind = "quadbuild" /\ status # "new") => ((status = "error") <=> (cfg.points = <<>>))

\* C29: for every list of distinct points the construction ends, built for a
\* non-empty list and with the error for the empty one; the children of every
\* internal node partition its points and are each smaller than it, and every
\* point ends in exactly one leaf.
C29_ConstructionTerminates ==
  /\ [](QbNodeSplits /\ QbLeavesArePoints /\ QbErrorIffEmpty)
  /\ <>(status \in {"built", "error"})

\* a tree of four points has been built with a root, an internal node below
\* it and four leaves
C29_Witness ==
  /\ cfg.kind = "quadbuild"
  /\ status = "built"
  /\ Len(cfg.points) = 4
  /\ Len(created) = 4
  /\ nvars >= 6
(***************************************************************************)
(* Claims about the arrangements of paths the PathConstrainer admits.      *)
(***************************************************************************)
\* the positions of the directions in which the symbol has an arm
PaArms(symbol) ==
  IF symbol <= maxPathSegmentSymbolIndex
  THEN {directionPairs[symbol + 1][1], directionPairs[symbol + 1][2]}
  ELSE IF cfg.includeTerminals /\ symbol <= maxPathTerminalSymbolIndex(TRUE)
  THEN {symbol - maxPathSegmentSymbolIndex}
  ELSE {}

\* the lattice index of the neighbour of cell i in direction k, or 0
PaNeighbour(i, k) ==
  LET np == translate(cfg.lattice[i], edgeSharingDirections[k].vector)
  IN IF np \in LatticePoints THEN pointToIndex(cfg.lattice, np) + 1 ELSE 0

PaLinked(s, i, j) == \E k \in PaArms(s[i]) : PaNeighbour(i, k) = j

RECURSIVE PaReach(_, _, _)
PaReach(s, cells, fuel) ==
  IF fuel = 0 THEN cells
  ELSE PaReach(s, cells \cup {j \in 1..Len(cfg.lattice) : \E i \in cells : PaLinked(s, i, j)},
               fuel - 1)

\* the cells on the path or loop through cell i
PaComponent(s, i) == PaReach(s, {i}, Len(cfg.lattice))

PaIsOpen(s, comp) == \E i \in comp : Cardinality(PaArms(s[i])) = 1

\* the symbol x of cell k agrees with the symbols f of the cells before it:
\* every arm of x has a neighbour, and the arms between k and an earlier
\* cell come in pairs
PaFits(f, k, x) ==
  /\ \A d \in PaArms(x) :
       LET j == PaNeighbour(k, d)
       IN /\ j # 0
          /\ j < k => DirPos(negate(edgeSharingDirections[d].vector)) \in PaArms(f[j])
  /\ \A j \in 1..(k - 1) : \A d \in PaArms(f[j]) :
       PaNeighbour(j, d) = k =>
         DirPos(negate(edgeSharingDirections[d].vector)) \in PaArms(x)
  /\ cfg.complete => PaArms(x) # {}
  /\ ~cfg.allowTerminatedPaths => Cardinality(PaArms(x)) # 1

\* the symbols of the first k cells in the arrangements
RECURSIVE PaSymbolsUpTo(_)
PaSymbolsUpTo(k) ==
  IF k = 0 THEN {<<>>}
  ELSE {Append(q[1], q[2]) :
          q \in {r \in PaSymbolsUpTo(k - 1)
                          \X (0..pathSymbolSetMaxIndex(cfg.includeTerminals, 1)) :
                    PaFits(r[1], k, r[2])}}

\* the symbols of the cells in every arrangement of disjoint simple open
\* paths and loops: every arm is met by an arm of the neighbour it points at;
\* no terminals without allowTerminatedPaths, no loops without allowLoops,
\* and no cell off the paths when complete
PaArrangements ==
  {s \in PaSymbolsUpTo(Len(cfg.lattice)) :
     cfg.allowLoops \/ \A i \in 1..Len(s) :
                         PaArms(s[i]) # {} => PaIsOpen(s, PaComponent(s, i))}

\* the order x of cell k agrees with the orders f of the cells before it:
\* -1 off the paths; on a path or loop of n cells one of 0 .. n - 1, taken
\* by no other of its cells, with cells of consecutive orders linked, and 0
\* on an open path only for a terminal
PaOrderFits(s, comps, f, k, x) ==
  IF PaArms(s[k]) = {} THEN x = 0 - 1
  ELSE /\ x \in 0..(Cardinality(comps[k]) - 1)
       /\ \A j \in comps[k] :
            j < k => /\ f[j] # x
                     /\ (f[j] = x + 1 \/ x = f[j] + 1) => PaLinked(s, k, j)
       /\ (x = 0 /\ PaIsOpen(s, comps[k])) => Cardinality(PaArms(s[k])) = 1

RECURSIVE PaOrdersUpTo(_, _, _)
PaOrdersUpTo(s, comps, k) ==
  IF k = 0 THEN {<<>>}
  ELSE {Append(q[1], q[2]) :
          q \in {r \in PaOrdersUpTo(s, comps, k - 1) \X ((0 - 1)..(Len(s) - 1)) :
                    PaOrderFits(s, comps, r[1], k, r[2])}}

\* the order labellings of the arrangement s: along each open path 0, 1, ...
\* from either terminal, around each loop 0, 1, ... from any cell in either
\* sense
PaOrders(s) ==
  PaOrdersUpTo(s, [i \in 1..Len(s) |-> PaComponent(s, i)] \o <<>>, Len(s))

\* the values of all the constants for the arrangement s labelled po: the
\* symbols, the pathInstance (the lattice index of the order-0 cell of the
\* cell's path, -1 off the paths) and the pathOrder of the cells
PaAssignment(s, po) ==
  LET n == Len(cfg.lattice)
      first(i) == CHOOSE j \in PaComponent(s, i) : po[j] = 0
  IN [v \in 1..(3 * n) |->
        IF v <= n THEN s[v]
        ELSE IF v <= 2 * n
        THEN (IF PaArms(s[v - n]) = {} THEN 0 - 1 ELSE first(v - n) - 1)
        ELSE po[v - 2 * n]]

PaIsModel(m) == \A j \in 1..Len(solver) : Holds(solver[j], m)

PcBuilt == status = "built" /\ cfg.kind = "path"

\* C30: for every arrangement of disjoint simple open paths and loops that
\* the flags allow, and every labelling of it with either terminal of each
\* open path and any cell of each loop as the order-0 cell, the symbols,
\* pathInstance and pathOrder values satisfy every assertion.
C30_EveryArrangementHasModel ==
  PcBuilt => \A s \in PaArrangements : \A po \in PaOrders(s) : PaIsModel(PaAssignment(s, po))

\* the 2 x 2 lattice carries a loop through its four cells labelled from
\* its last cell, and two open paths of two cells, each with a model
C30_Witness ==
  /\ PcBuilt
  /\ Len(cfg.lattice) = 4
  /\ \E s \in PaArrangements : \E po \in PaOrders(s) :
       /\ PaIsModel(PaAssignment(s, po))
       /\ ~PaIsOpen(s, PaComponent(s, 1))
       /\ Cardinality(PaComponent(s, 1)) = 4
       /\ po[4] = 0
  /\ \E s \in PaArrangements : \E po \in PaOrders(s) :
       /\ PaIsModel(PaAssignment(s, po))
       /\ PaIsOpen(s, PaComponent(s, 1))
       /\ Cardinality(PaComponent(s, 1)) = 2
       /\ Cardinality(PaComponent(s, 4)) = 2
       /\ po[4] = 0
====
